---- MODULE Spec2Model ----
(***************************************************************************)
(* Texas Hold'em engine of camelot (src/src/camelot/game/poker_game.py):   *)
(* the betting state machine, the pot engine, the hand lifecycle and the   *)
(* transaction shell of PokerGame.process_action (request-id cache, action *)
(* lock, snapshot / rollback, state version).                              *)
(*                                                                         *)
(* Cards are modelled by their number (hole cards per player, board cards, *)
(* deck size); the outcome of the shuffle that matters to the engine, the  *)
(* order of the players' hands at showdown, is a nondeterministic strength *)
(* per player chosen when the showdown is resolved.                        *)
(***************************************************************************)
EXTENDS Integers, Sequences, FiniteSets, TLC

(***************************************************************************)
(* Bounds of the model.                                                    *)
(***************************************************************************)
MaxHands == 2          \* hands started per game
MaxRaise == 3          \* largest amount passed to process_action
MaxVersion == 4        \* accepted actions per game
MaxShellRecords == 1   \* hand records present when a call may still raise
MaxShellHands == 1     \* hands started while concurrent callers are at work
MaxShellVersion == 2   \* concurrent callers start calls below this state_version
MaxStrength == 2       \* distinct hand strengths drawn at a showdown
MaxTime == 6           \* the clock stops here
TickStep == 3          \* seconds between two observations of the clock
NumCallers == 2        \* concurrent callers of process_action
NumTasks == 2          \* asyncio tasks calling into a GameRoom
MaxEntries == 3        \* keys ever inserted into GameRoom.connections
MaxLowRank == 6        \* the evaluator's deck: the ranks 2..MaxLowRank and the ace
MaxSuit == 2           \* the evaluator's deck: the suits 0..MaxSuit

(***************************************************************************)
(* Program constants.                                                      *)
(***************************************************************************)
RequestCacheTTL == 5   \* PokerGame._request_cache_ttl
MaxSnapshots == 10     \* PokerGame._max_snapshots
DeckSize == 52         \* len(RANKS) * len(SUITS)

\* HandRank
ROYAL_FLUSH == 10
STRAIGHT_FLUSH == 9
FOUR_OF_A_KIND == 8
FULL_HOUSE == 7
FLUSH == 6
STRAIGHT == 5
THREE_OF_A_KIND == 4
TWO_PAIR == 3
ONE_PAIR == 2
HIGH_CARD == 1

\* game_config values the games are created with (stacks in big blinds)
Configs ==
  { [heroStack |-> 1, opponentStacks |-> <<2, 2>>, bigBlind |-> 2],
    [heroStack |-> 4, opponentStacks |-> <<4>>, bigBlind |-> 2],
    [heroStack |-> 4, opponentStacks |-> <<4, 4>>, bigBlind |-> 2] }

\* game_config values of the four-handed games used to explore start_new_hand
SetupConfigs ==
  { [heroStack |-> 3, opponentStacks |-> <<1, 1, 3>>, bigBlind |-> 2] }

\* game_config values of the games used to explore the transaction shell
ShellConfigs ==
  { [heroStack |-> 2, opponentStacks |-> <<2>>, bigBlind |-> 2] }

VARIABLES
  config,            \* PokerGame.config
  state,             \* PokerGame.state (GameState)
  hand_history,      \* PokerGame.hand_history
  chip_movements,    \* PokerGame._chip_movements
  state_version,     \* PokerGame._state_version
  state_snapshots,   \* PokerGame._state_snapshots: the versions a snapshot is kept of
  processed_requests,\* PokerGame._processed_requests
  action_lock,       \* PokerGame._action_lock: the callers holding it
  pc,                \* position of every caller inside process_action
  args,              \* arguments of every caller's call in flight
  now,               \* time.time()
  returned,          \* what the last call of a concurrent caller returned, and to whom
  all_cards,         \* evaluate_hand: the cards passed to it, hole cards and community cards
  best_eval,         \* evaluate_hand: the evaluation it returned
  connections,       \* GameRoom.connections: its keys in the order the dict holds them
  room_lock,         \* GameRoom._lock
  tasks              \* the GameRoom coroutines every asyncio task is inside of

vars == <<config, state, hand_history, chip_movements, state_version,
          state_snapshots, processed_requests, action_lock, pc, args, now, returned,
          all_cards, best_eval, connections, room_lock, tasks>>

(***************************************************************************)
(* Enumerations and small helpers.                                         *)
(***************************************************************************)
GamePhase == {"WAITING", "PRE_FLOP", "FLOP", "TURN", "RIVER", "SHOWDOWN", "GAME_OVER"}
PlayerAction == {"check", "call", "raise", "fold", "all_in"}
None == "none"
NoCaller == {}
Callers == 1..NumCallers
NoRequest == "no_request_id"
RequestIds == {"r1"}

Min(a, b) == IF a < b THEN a ELSE b
Max(a, b) == IF a > b THEN a ELSE b

RECURSIVE SumOver(_, _)
SumOver(f, S) ==
  IF S = {} THEN 0
  ELSE LET x == CHOOSE y \in S : TRUE IN f[x] + SumOver(f, S \ {x})

RECURSIVE SortedSeq(_)
SortedSeq(S) ==
  IF S = {} THEN <<>>
  ELSE LET m == CHOOSE x \in S : \A y \in S : x <= y
       IN <<m>> \o SortedSeq(S \ {m})

SetMax(S) == CHOOSE x \in S : \A y \in S : y <= x

NumPlayers(cfg) == 1 + Len(cfg.opponentStacks)
Seats(s) == DOMAIN s.players
N(s) == Cardinality(DOMAIN s.players)

\* total chips configured at game creation
ExpectedTotal(cfg) ==
  cfg.heroStack * cfg.bigBlind
  + SumOver([i \in 1..Len(cfg.opponentStacks) |-> cfg.opponentStacks[i] * cfg.bigBlind],
            1..Len(cfg.opponentStacks))

ChipTotal(s) ==
  SumOver([i \in Seats(s) |-> s.players[i].stack + s.players[i].total_bet_this_hand], Seats(s))

PotTotal(s) == SumOver([i \in 1..Len(s.pots) |-> s.pots[i].amount], 1..Len(s.pots))

(***************************************************************************)
(* GameState queries.                                                      *)
(***************************************************************************)
\* GameState.get_players_in_hand
PlayersInHand(s) == {i \in Seats(s) : ~s.players[i].has_folded}

\* GameState.get_active_players
ActivePlayers(s) == {i \in Seats(s) : ~s.players[i].has_folded /\ s.players[i].stack > 0}

\* seats whose player has chips
Funded(s) == {i \in Seats(s) : s.players[i].stack > 0}

\* the first seat (start + i) % n, i = from..to, that satisfies the test; -1 if none
FirstSeat(s, start, from, to, ok) ==
  LET n == N(s)
      hits == {i \in from..to : ((start + i) % n) \in ok}
  IN IF hits = {} THEN -1
     ELSE (start + (CHOOSE i \in hits : \A j \in hits : i <= j)) % n

\* GameState.get_next_active_position
GetNextActivePosition(s, position) ==
  FirstSeat(s, position, 1, N(s),
            {i \in Seats(s) : /\ ~s.players[i].has_folded
                              /\ s.players[i].stack > 0
                              /\ \/ s.players[i].current_bet < s.current_bet
                                 \/ s.players[i].last_action = None})

\* PokerGame._get_next_active_dealer_position
GetNextActiveDealerPosition(s) ==
  LET p == FirstSeat(s, s.dealer_position, 1, N(s), Funded(s))
  IN IF p = -1 THEN s.dealer_position ELSE p

\* PokerGame._get_small_blind_position
GetSmallBlindPosition(s) ==
  IF Cardinality(Funded(s)) <= 2 THEN s.dealer_position
  ELSE LET p == FirstSeat(s, s.dealer_position, 1, N(s), Funded(s))
       IN IF p = -1 THEN s.dealer_position ELSE p

\* the second funded seat after the dealer, or the dealer if there is none
SecondFundedAfterDealer(s) ==
  LET n == N(s)
      hits == {i \in 1..n : ((s.dealer_position + i) % n) \in Funded(s)}
      second == {i \in hits : Cardinality({j \in hits : j < i}) = 1}
  IN IF second = {} THEN s.dealer_position
     ELSE (s.dealer_position + (CHOOSE i \in second : TRUE)) % n

\* PokerGame._get_big_blind_position
GetBigBlindPosition(s) ==
  LET p == FirstSeat(s, s.dealer_position, 1, N(s), Funded(s))
  IN IF Cardinality(Funded(s)) <= 2 /\ p # -1 THEN p
     ELSE SecondFundedAfterDealer(s)

\* PokerGame._get_first_to_act_position
GetFirstToActPosition(s) ==
  LET start == IF s.phase = "PRE_FLOP"
               THEN (GetBigBlindPosition(s) + 1) % N(s)
               ELSE (s.dealer_position + 1) % N(s)
  IN FirstSeat(s, start, 0, N(s) - 1, ActivePlayers(s))

\* PokerGame._get_player_by_id: the seat of the player, -1 for an unknown id
\* (player ids are modelled by seat numbers: 0 is "hero", i is "ai_i")
GetPlayerById(s, player_id) == IF player_id \in Seats(s) THEN player_id ELSE -1

(***************************************************************************)
(* The engine works on g = [state, chip_movements, hand_history]: the      *)
(* GameState and the two lists of PokerGame the engine appends to.         *)
(***************************************************************************)
\* PokerGame._record_chip_movement
RecordChipMovement(g, seat, amount, reason) ==
  [g EXCEPT !.chip_movements =
     Append(@, [player_id |-> seat, amount |-> amount, reason |-> reason,
                hand_number |-> g.state.hand_number])]

\* PokerGame._place_bet
PlaceBet(g, seat, amount) ==
  LET p == g.state.players[seat]
      actual_bet == Min(amount, p.stack)
      g1 == [g EXCEPT !.state.players[seat] =
               [p EXCEPT !.stack = p.stack - actual_bet,
                         !.current_bet = p.current_bet + actual_bet,
                         !.total_bet_this_hand = p.total_bet_this_hand + actual_bet]]
  IN RecordChipMovement(g1, seat, -actual_bet, "bet")

\* PokerGame._record_hand_history
RecordHandHistory(g) ==
  [g EXCEPT !.hand_history =
     Append(@, [hand_number |-> g.state.hand_number,
                pots |-> g.state.pots,
                final_stack |-> [i \in Seats(g.state) |-> g.state.players[i].stack],
                total_bet |-> [i \in Seats(g.state) |->
                                 g.state.players[i].total_bet_this_hand]])]

\* a reset for a new hand that keeps the bet of the last round
ResetForNewHandKeepingBet(p) ==
  [p EXCEPT !.hole_cards = 0, !.total_bet_this_hand = 0,
            !.has_folded = FALSE, !.last_action = None]

\* Player.reset_for_new_hand
ResetForNewHand(p) ==
  [p EXCEPT !.hole_cards = 0, !.current_bet = 0, !.total_bet_this_hand = 0,
            !.has_folded = FALSE, !.last_action = None]

\* the deal loop of start_new_hand: two cards to every player who has chips now
DealHoleCards(s) ==
  LET dealt == Funded(s)
  IN [s EXCEPT !.players = [i \in Seats(s) |->
                              IF i \in dealt THEN [s.players[i] EXCEPT !.hole_cards = 2]
                              ELSE s.players[i]],
               !.deck = s.deck - 2 * Cardinality(dealt)]

WithState(g, s) == [g EXCEPT !.state = s]

\* start_new_hand up to the blinds: counters, dealer button, players, deck, board
NextHandState(s) ==
  [s EXCEPT !.hand_number = s.hand_number + 1,
            !.current_bet = 0,
            !.min_raise = s.big_blind,
            !.dealer_position = GetNextActiveDealerPosition(s),
            !.players = [i \in Seats(s) |-> ResetForNewHand(s.players[i])],
            !.deck = DeckSize,
            !.board_cards = 0,
            !.pots = <<>>,
            !.phase = "PRE_FLOP"]

\* posting one blind: the blind or, if smaller, the player's stack
PostBlind(g, position, blind) ==
  PlaceBet(g, position, Min(blind, g.state.players[position].stack))
PostSmallBlind(g) == PostBlind(g, GetSmallBlindPosition(g.state), g.state.small_blind)
PostBigBlind(g) == PostBlind(g, GetBigBlindPosition(g.state), g.state.big_blind)

\* start_new_hand after the deal: table bet, minimum raise, first to act
OpenPreFlop(s) ==
  [s EXCEPT !.current_bet = s.big_blind,
            !.min_raise = s.big_blind,
            !.action_on = GetFirstToActPosition(s)]
DealAndOpen(g) == WithState(g, OpenPreFlop(DealHoleCards(g.state)))

\* PokerGame.start_new_hand, when more than one player has chips
StartNewHandBody(g) ==
  DealAndOpen(PostBigBlind(PostSmallBlind(WithState(g, NextHandState(g.state)))))

(***************************************************************************)
(* Pot engine.                                                             *)
(***************************************************************************)
\* the bet levels of _calculate_pots: distinct positive totals of non-folded players
BetLevels(s) ==
  SortedSeq({s.players[i].total_bet_this_hand :
               i \in {j \in PlayersInHand(s) : s.players[j].total_bet_this_hand > 0}})

PotAtLevelOfPlayersInHand(s, bet_level, previous_level) ==
  LET contributors == {i \in PlayersInHand(s) :
                         s.players[i].total_bet_this_hand > previous_level}
  IN [amount |-> SumOver([i \in Seats(s) |->
                            Min(bet_level - previous_level,
                                s.players[i].total_bet_this_hand - previous_level)],
                         contributors),
      eligible_players |-> {i \in contributors :
                              s.players[i].total_bet_this_hand >= bet_level}]

\* one pass of the level loop of _calculate_pots
PotAtLevel(s, bet_level, previous_level) ==
  LET contributors == {i \in Seats(s) : s.players[i].total_bet_this_hand > previous_level}
  IN [amount |-> SumOver([i \in Seats(s) |->
                            Min(bet_level - previous_level,
                                s.players[i].total_bet_this_hand - previous_level)],
                         contributors),
      eligible_players |-> {i \in contributors :
                              /\ ~s.players[i].has_folded
                              /\ s.players[i].total_bet_this_hand >= bet_level}]

RECURSIVE SidePots(_, _, _)
SidePots(s, levels, k) ==
  IF k > Len(levels) THEN <<>>
  ELSE LET pot == PotAtLevel(s, levels[k], IF k = 1 THEN 0 ELSE levels[k - 1])
       IN (IF pot.amount > 0 /\ pot.eligible_players # {} THEN <<pot>> ELSE <<>>)
          \o SidePots(s, levels, k + 1)

\* the fold-out branch of _calculate_pots: one player has not folded
UncalledBetPots(g, winner) ==
  LET s == g.state
      folded_bets == {s.players[i].total_bet_this_hand :
                        i \in {j \in Seats(s) : /\ s.players[j].has_folded
                                                /\ s.players[j].total_bet_this_hand > 0}}
      w == s.players[winner]
  IN IF folded_bets # {}
     THEN LET max_called == SetMax(folded_bets)
              pot_size == SumOver([i \in Seats(s) |->
                                     Min(s.players[i].total_bet_this_hand, max_called)],
                                  Seats(s))
              uncalled == w.total_bet_this_hand - max_called
              g1 == [g EXCEPT !.state.pots =
                       <<[amount |-> pot_size, eligible_players |-> {winner}]>>]
          IN IF uncalled > 0
             THEN RecordChipMovement(
                    [g1 EXCEPT !.state.players[winner].stack = w.stack + uncalled],
                    winner, uncalled, "uncalled_bet_return")
             ELSE g1
     ELSE LET g1 == [g EXCEPT !.state.pots = <<>>,
                              !.state.players[winner].stack = w.stack + w.total_bet_this_hand]
              g2 == RecordChipMovement(g1, winner, w.total_bet_this_hand, "own_bet_return")
          IN [g2 EXCEPT !.state.players =
                [i \in Seats(s) |-> [g2.state.players[i] EXCEPT !.total_bet_this_hand = 0]]]

\* PokerGame._calculate_pots
CalculatePots(g) ==
  LET s == g.state
  IN IF Len(s.pots) > 0 /\ PotTotal(s) > 0 THEN g
     ELSE IF Cardinality(PlayersInHand(s)) = 1
          THEN UncalledBetPots(g, CHOOSE i \in PlayersInHand(s) : TRUE)
          ELSE [g EXCEPT !.state.pots = SidePots(s, BetLevels(s), 1)]

\* the award loop for a single remaining player (fold-out and _resolve_showdown)
RECURSIVE AwardAllTo(_, _, _)
AwardAllTo(g, winner, k) ==
  IF k > Len(g.state.pots) THEN g
  ELSE LET pot == g.state.pots[k]
       IN IF winner \in pot.eligible_players
          THEN AwardAllTo(
                 RecordChipMovement(
                   [g EXCEPT !.state.players[winner].stack = @ + pot.amount],
                   winner, pot.amount, "pot_won_fold"),
                 winner, k + 1)
          ELSE AwardAllTo(g, winner, k + 1)

\* "Clear all player bets" at the end of a hand
ClearBets(g) ==
  [g EXCEPT !.state.players =
     [i \in Seats(g.state) |->
        [g.state.players[i] EXCEPT !.total_bet_this_hand = 0, !.current_bet = 0]]]

(***************************************************************************)
(* Showdown.  strength[i] stands for evaluate_hand(hole cards of i, board): *)
(* get_winning_players returns the players of maximal strength, in the     *)
(* order of the dict it is given (seat order).                             *)
(***************************************************************************)
\* the hand orders a shuffle can produce: a player without hole cards plays the board
Strengths(s) ==
  {str \in [Seats(s) -> 1..MaxStrength] :
     \A i \in Seats(s) : s.players[i].hole_cards = 0 => str[i] = 1}

\* hand_evaluator.get_winning_players / compare_hands
GetWinningPlayers(eligible_in_pot, strength) ==
  SortedSeq({i \in eligible_in_pot : \A j \in eligible_in_pot : strength[j] <= strength[i]})

\* the inner loop of _resolve_showdown: split one pot among its winners
RECURSIVE SplitPot(_, _, _, _, _)
SplitPot(g, k, amount, winner_ids, j) ==
  IF j > Len(winner_ids) THEN g
  ELSE LET split_amount == amount \div Len(winner_ids)
           remainder == amount % Len(winner_ids)
           award_amount == split_amount + (IF j = 1 THEN remainder ELSE 0)
           winner == winner_ids[j]
       IN SplitPot(
            RecordChipMovement(
              [g EXCEPT !.state.players[winner].stack = @ + award_amount],
              winner, award_amount, "pot_won_showdown"),
            k, amount, winner_ids, j + 1)

\* the pot loop of _resolve_showdown
RECURSIVE AwardShowdown(_, _, _)
AwardShowdown(g, strength, k) ==
  IF k > Len(g.state.pots) THEN g
  ELSE LET pot == g.state.pots[k]
           eligible_in_pot == PlayersInHand(g.state) \cap pot.eligible_players
       IN IF eligible_in_pot # {}
          THEN AwardShowdown(
                 SplitPot(g, k, pot.amount, GetWinningPlayers(eligible_in_pot, strength), 1),
                 strength, k + 1)
          ELSE AwardShowdown(g, strength, k + 1)

\* the end of _resolve_showdown: history, then pots and bets cleared
FinishShowdown(g) ==
  ClearBets([RecordHandHistory(g) EXCEPT !.state.pots = <<>>])

\* PokerGame._resolve_showdown
ResolveShowdown(g, strength) ==
  LET s == g.state
  IN IF s.phase \notin {"SHOWDOWN", "GAME_OVER"} THEN g
     ELSE IF Len(s.pots) = 0 \/ PotTotal(s) = 0 THEN g
     ELSE IF Cardinality(PlayersInHand(s)) = 1
          THEN FinishShowdown(AwardAllTo(g, CHOOSE i \in PlayersInHand(s) : TRUE, 1))
          ELSE IF s.board_cards < 5 THEN g
               ELSE FinishShowdown(AwardShowdown(g, strength, 1))

(***************************************************************************)
(* Betting state machine.                                                  *)
(***************************************************************************)
IsBettingRoundCompleteByBets(s) ==
  LET players_in_hand == PlayersInHand(s)
      active_players == {i \in players_in_hand : s.players[i].stack > 0}
  IN \/ Cardinality(players_in_hand) <= 1
     \/ active_players = {}
     \/ \A i \in active_players : s.players[i].current_bet >= s.current_bet

\* PokerGame._is_betting_round_complete.  (Its pre-flop "big blind option"
\* branch is only reached by a player whose last_action is not None and
\* requires last_action to be None: it never adds a player.)
IsBettingRoundComplete(s) ==
  LET players_in_hand == PlayersInHand(s)
      active_players == {i \in players_in_hand : s.players[i].stack > 0}
      players_who_need_to_act ==
        {i \in active_players : \/ s.players[i].last_action = None
                                \/ s.players[i].current_bet < s.current_bet}
  IN \/ Cardinality(players_in_hand) <= 1
     \/ active_players = {}
     \/ players_who_need_to_act = {}

\* "RESETTING BETS FOR NEW BETTING ROUND" in _advance_phase
ResetBets(s) ==
  [s EXCEPT !.players = [i \in Seats(s) |->
                           [s.players[i] EXCEPT
                              !.current_bet = 0,
                              !.last_action = IF ~s.players[i].has_folded /\ s.players[i].stack > 0
                                              THEN None ELSE @]],
            !.current_bet = 0,
            !.min_raise = s.big_blind]

\* _advance_phase once the first player to act is set: all-in detection
DetectAllIn(g) ==
  IF /\ g.state.action_on = -1
     /\ ActivePlayers(g.state) = {}
     /\ Cardinality(PlayersInHand(g.state)) > 1
  THEN CalculatePots([g EXCEPT !.state.all_players_all_in = TRUE])
  ELSE g

\* the tail of _advance_phase after a street change: who acts, all-in detection
AfterStreetChange(g) ==
  DetectAllIn([g EXCEPT !.state.action_on = GetFirstToActPosition(g.state)])

\* _advance_phase after the bets are reset, moving from the flop to the river
AdvanceFromFlopToRiver(g, strength) ==
  CASE g.state.phase = "PRE_FLOP" ->
         AfterStreetChange([g EXCEPT !.state.board_cards = 0,
                                     !.state.phase = "FLOP",
                                     !.state.awaiting_card_deal = TRUE])
    [] g.state.phase = "FLOP" ->
         AfterStreetChange([g EXCEPT !.state.phase = "RIVER",
                                     !.state.awaiting_card_deal = TRUE])
    [] g.state.phase = "TURN" ->
         AfterStreetChange([g EXCEPT !.state.phase = "RIVER",
                                     !.state.awaiting_card_deal = TRUE])
    [] g.state.phase = "RIVER" ->
         IF g.state.board_cards # 5 THEN g
         ELSE ResolveShowdown(CalculatePots([g EXCEPT !.state.phase = "SHOWDOWN"]),
                              strength)
    [] g.state.phase \in {"SHOWDOWN", "GAME_OVER"} -> g
    [] OTHER -> AfterStreetChange(g)

\* _advance_phase after the bets are reset
AdvanceFrom(g, strength) ==
  CASE g.state.phase = "PRE_FLOP" ->
         AfterStreetChange([g EXCEPT !.state.board_cards = 0,
                                     !.state.phase = "FLOP",
                                     !.state.awaiting_card_deal = TRUE])
    [] g.state.phase = "FLOP" ->
         AfterStreetChange([g EXCEPT !.state.phase = "TURN",
                                     !.state.awaiting_card_deal = TRUE])
    [] g.state.phase = "TURN" ->
         AfterStreetChange([g EXCEPT !.state.phase = "RIVER",
                                     !.state.awaiting_card_deal = TRUE])
    [] g.state.phase = "RIVER" ->
         IF g.state.board_cards # 5 THEN g
         ELSE ResolveShowdown(CalculatePots([g EXCEPT !.state.phase = "SHOWDOWN"]),
                              strength)
    [] g.state.phase \in {"SHOWDOWN", "GAME_OVER"} -> g
    [] OTHER -> AfterStreetChange(g)

\* PokerGame._advance_phase
AdvancePhase(g, strength) ==
  CHOOSE left \in {AdvanceFrom(reset, strength) :
                     reset \in {WithState(g, ResetBets(g.state))}} : TRUE

(***************************************************************************)
(* process_action: the action clauses and what follows them.               *)
(***************************************************************************)
\* PokerGame._serialize_state: the values copied into a result (the card lists
\* of a result are references to the engine's lists, not copies)
SerializeState(s) ==
  [phase |-> s.phase,
   hand_number |-> s.hand_number,
   awaiting_card_deal |-> s.awaiting_card_deal,
   all_players_all_in |-> s.all_players_all_in,
   players |-> [i \in Seats(s) |->
                  [stack |-> s.players[i].stack,
                   has_folded |-> s.players[i].has_folded,
                   current_bet |-> s.players[i].current_bet,
                   last_action |-> s.players[i].last_action,
                   is_dealer |-> i = s.dealer_position,
                   is_small_blind |-> i = GetSmallBlindPosition(s),
                   is_big_blind |-> i = GetBigBlindPosition(s)]],
   pots |-> s.pots,
   current_bet |-> s.current_bet,
   min_raise |-> s.min_raise,
   action_on |-> s.action_on]

NoState == [phase |-> None]
Failure(error) == [success |-> FALSE, error |-> error, state |-> NoState, validation_errors |-> {}]
Success(s) == [success |-> TRUE, error |-> None, state |-> SerializeState(s), validation_errors |-> {}]

\* players[action_on] with Python's list indexing: index -1 is the last seat
PlayerAtIndex(s, index) == IF index < 0 THEN N(s) + index ELSE index

\* the CHECK clause of _do_process_action: may this player check?
CheckAllowed(s, seat) ==
  IF s.phase = "PRE_FLOP"
  THEN IF seat = GetBigBlindPosition(s) THEN ~(s.current_bet > s.big_blind)
       ELSE IF seat = GetSmallBlindPosition(s) THEN FALSE
       ELSE ~(s.current_bet > s.players[seat].current_bet)
  ELSE ~(s.current_bet > s.players[seat].current_bet)

SetLastAction(g, seat, action) == [g EXCEPT !.state.players[seat].last_action = action]

\* the CALL clause
ApplyCall(g, seat) ==
  LET s == g.state
      to_call == s.current_bet - s.players[seat].current_bet
      call_amount == Min(to_call, s.players[seat].stack)
  IN SetLastAction(PlaceBet(g, seat, call_amount), seat, "call")

\* the RAISE clause, for amount >= min_raise
SetRaise(g, seat, amount) ==
  [g EXCEPT !.state.current_bet = g.state.players[seat].current_bet,
            !.state.min_raise = Max(amount, g.state.min_raise)]
ApplyRaiseOverOwnBet(g, seat, amount) ==
  SetLastAction(SetRaise(PlaceBet(g, seat, Min(amount, g.state.players[seat].stack)),
                         seat, amount), seat, "raise")

ApplyRaise(g, seat, amount) ==
  LET raise_to == g.state.current_bet + amount
      bet_amount == Min(raise_to - g.state.players[seat].current_bet,
                        g.state.players[seat].stack)
  IN SetLastAction(SetRaise(PlaceBet(g, seat, bet_amount), seat, amount), seat, "raise")

RaiseAlwaysAllowed(s, seat, amount) == TRUE

\* does the RAISE clause accept the amount?
RaiseAllowed(s, seat, amount) == ~(amount < s.min_raise)

\* the ALL_IN clause
RaiseTableBet(g, seat) ==
  IF g.state.players[seat].current_bet > g.state.current_bet
  THEN [g EXCEPT !.state.current_bet = g.state.players[seat].current_bet]
  ELSE g
ApplyAllIn(g, seat) ==
  SetLastAction(RaiseTableBet(PlaceBet(g, seat, g.state.players[seat].stack), seat),
                seat, "all_in")

\* the action clauses of _do_process_action: [ok, g, error]
ApplyAction(g, seat, action, amount) ==
  CASE action = "fold" ->
         [ok |-> TRUE, error |-> None,
          g |-> SetLastAction([g EXCEPT !.state.players[seat].has_folded = TRUE], seat, "fold")]
    [] action = "check" ->
         IF CheckAllowed(g.state, seat)
         THEN [ok |-> TRUE, error |-> None, g |-> SetLastAction(g, seat, "check")]
         ELSE [ok |-> FALSE, error |-> "Cannot check, must call or fold", g |-> g]
    [] action = "call" -> [ok |-> TRUE, error |-> None, g |-> ApplyCall(g, seat)]
    [] action = "raise" ->
         IF RaiseAllowed(g.state, seat, amount)
         THEN [ok |-> TRUE, error |-> None, g |-> ApplyRaise(g, seat, amount)]
         ELSE [ok |-> FALSE, error |-> "Minimum raise", g |-> g]
    [] action = "all_in" -> [ok |-> TRUE, error |-> None, g |-> ApplyAllIn(g, seat)]

\* "Everyone else folded - immediate win" in _do_process_action
FoldOut(g) ==
  LET g1 == CalculatePots(g)
      winner == CHOOSE i \in PlayersInHand(g.state) : TRUE
      g2 == AwardAllTo(g1, winner, 1)
      g3 == RecordHandHistory([g2 EXCEPT !.state.pots = <<>>])
  IN [ClearBets(g3) EXCEPT !.state.phase = "GAME_OVER", !.state.action_on = -1]

Succeed(g) == [g |-> g, result |-> Success(g.state)]

\* _do_process_action after the action clause: fold-out, round end or next player
AfterAction(g, strength) ==
  LET n_in_hand == Cardinality(PlayersInHand(g.state))
  IN IF n_in_hand = 1 THEN Succeed(FoldOut(g))
     ELSE IF n_in_hand = 0
          THEN [g |-> g, result |-> Failure("No players remaining in hand")]
          ELSE Succeed(IF IsBettingRoundComplete(g.state)
                       THEN AdvancePhase(g, strength)
                       ELSE [g EXCEPT !.state.action_on =
                               GetNextActivePosition(g.state, g.state.action_on)])

\* the guards of _do_process_action: the error it returns before acting, or None
RejectReason(s, player_id) ==
  LET seat == GetPlayerById(s, player_id)
  IN IF s.phase = "GAME_OVER" THEN "Hand is already over"
     ELSE IF s.phase = "WAITING" THEN "No hand in progress"
     ELSE IF seat = -1 THEN "Invalid player"
     ELSE IF s.players[seat].has_folded THEN "Cannot act after folding"
     ELSE IF PlayerAtIndex(s, s.action_on) # seat THEN "Not your turn"
     ELSE None

\* [g, result, mid]: what a call leaves and returns, mid being the game state as
\* the action clause left it, before fold-out, round end or turn change
Outcome(r, mid) == [g |-> r.g, result |-> r.result, mid |-> mid]
Refuse(g, error) == [g |-> g, result |-> Failure(error), mid |-> g.state]

\* _do_process_action from the action clause on; a is what the clause returned
Conclude(g, a, strength) ==
  IF ~a.ok THEN Refuse(g, a.error)
  ELSE Outcome(AfterAction(a.g, strength), a.g.state)

\* _do_process_action after its guards; reason is what they returned
Guarded(g, reason, player_id, action, amount, strength) ==
  IF reason # None THEN Refuse(g, reason)
  ELSE Conclude(g, ApplyAction(g, GetPlayerById(g.state, player_id), action, amount),
                strength)

\* PokerGame._do_process_action
DoProcessAction(g, player_id, action, amount, strength) ==
  Guarded(g, RejectReason(g.state, player_id), player_id, action, amount, strength)

(***************************************************************************)
(* Card dealing on request.                                                *)
(***************************************************************************)
\* PokerGame.deal_next_phase_cards: the error it returns, or None
DealRejectReason(s) ==
  IF s.phase \in s.cards_dealt_for_phase THEN "Cards already dealt for this phase"
  ELSE IF ~s.awaiting_card_deal THEN "Not awaiting card deal"
  ELSE IF s.phase = "FLOP" THEN (IF s.board_cards > 0 THEN "Board already has cards" ELSE None)
  ELSE IF s.phase = "TURN" THEN (IF s.board_cards # 3 THEN "Invalid board state" ELSE None)
  ELSE IF s.phase = "RIVER" THEN (IF s.board_cards # 4 THEN "Invalid board state" ELSE None)
  ELSE "Cannot deal cards in this phase"

\* PokerGame.deal_next_phase_cards, when it deals: a burn card and the street
DealNextPhaseCardsBody(s) ==
  LET street == IF s.phase = "FLOP" THEN 3 ELSE 1
  IN [s EXCEPT !.deck = s.deck - 1 - street,
               !.board_cards = s.board_cards + street,
               !.cards_dealt_for_phase = @ \cup {s.phase},
               !.awaiting_card_deal = FALSE]

(***************************************************************************)
(* PokerGame._validate_game_state: the errors it reports.                  *)
(***************************************************************************)
ExpectedCards(phase) ==
  CASE phase = "FLOP" -> 3
    [] phase = "TURN" -> 4
    [] phase \in {"RIVER", "SHOWDOWN", "GAME_OVER"} -> 5
    [] OTHER -> 0

ValidateGameState(s, cfg) ==
  (IF ChipTotal(s) # ExpectedTotal(cfg) THEN {"Chip integrity error"} ELSE {})
  \cup (IF \E i \in Seats(s) : s.players[i].stack < 0 THEN {"negative stack"} ELSE {})
  \cup (IF \E i \in Seats(s) : s.players[i].current_bet < 0
        THEN {"negative current bet"} ELSE {})
  \cup (IF s.phase \in {"GAME_OVER", "WAITING", "SHOWDOWN"} THEN {}
        ELSE IF s.all_players_all_in /\ s.action_on = -1 THEN {}
        ELSE IF s.action_on < 0 \/ s.action_on >= N(s) THEN {"Invalid action position"}
        ELSE IF s.players[s.action_on].has_folded THEN {"Action is on folded player"}
        ELSE {})
  \cup (IF s.current_bet < 0 THEN {"Current bet is negative"} ELSE {})
  \cup (IF /\ s.board_cards # ExpectedCards(s.phase)
           /\ ~s.awaiting_card_deal
           /\ ~(s.phase = "GAME_OVER" /\ s.board_cards < 5)
        THEN {"board cards"} ELSE {})

(***************************************************************************)
(* Transaction shell of process_action.                                    *)
(***************************************************************************)
NoEntry == {}
Engine == [state |-> state, chip_movements |-> chip_movements, hand_history |-> hand_history]

CleanupRequestCacheKeepsAll(requests, t) == requests

\* PokerGame._cleanup_request_cache at time t
CleanupRequestCache(requests, t) ==
  [r \in RequestIds |->
     {e \in requests[r] : ~(t - e.timestamp > RequestCacheTTL)}]

\* PokerGame._create_state_snapshot: the snapshot of a call and the versions
\* kept after storing it.  A stored snapshot is only ever read back by the call
\* that stored it (process_action restores state_version_before, the key it has
\* just written), so the variable keeps the keys and the call keeps the content.
CreateStateSnapshot(g, version, versions) ==
  LET stored == versions \cup {version}
  IN [snapshot |-> [state |-> g.state, state_version |-> version,
                    chip_movements_count |-> Len(g.chip_movements)],
      versions |-> {v \in stored : Cardinality({u \in stored : u > v}) < MaxSnapshots}]

ValidatedWithoutErrors(result, s) == result

\* the result of an accepted action: validation errors are added to it
Validated(result, s) ==
  IF result.success
  THEN [result EXCEPT !.validation_errors = ValidateGameState(s, config)]
  ELSE result

\* the try block of process_action after _do_process_action returned r
Commit(a, r) ==
  [g |-> r.g,
   state_version |-> IF r.result.success THEN state_version + 1 ELSE state_version,
   state_snapshots |-> CreateStateSnapshot(Engine, state_version, state_snapshots).versions,
   processed_requests |->
     IF r.result.success /\ a.request_id # NoRequest
     THEN [processed_requests EXCEPT
             ![a.request_id] = {[timestamp |-> now,
                                 result |-> Validated(r.result, r.g.state)]}]
     ELSE processed_requests,
   result |-> Validated(r.result, r.g.state),
   mid |-> r.mid]

\* process_action from the lock to the return, when nothing raises:
\* the values it leaves and the result it returns
LockedSection(a, strength) ==
  IF state.phase = "GAME_OVER"
  THEN [g |-> Engine, state_version |-> state_version, state_snapshots |-> state_snapshots,
        processed_requests |-> processed_requests, result |-> Failure("Game is over"),
        mid |-> state]
  ELSE Commit(a, DoProcessAction(Engine, a.player_id, a.action, a.amount, strength))

\* PokerGame._restore_state_snapshot applied to what the interrupted mutation left
RestoreStateSnapshot(stored, version, left) ==
  IF version \notin stored.versions THEN left
  ELSE [left EXCEPT !.state = stored.snapshot.state,
                    !.chip_movements =
                       SubSeq(left.chip_movements, 1, stored.snapshot.chip_movements_count)]

\* the except branch of process_action
Rollback(stored, left) ==
  [g |-> RestoreStateSnapshot(stored, state_version, left),
   state_version |-> stored.snapshot.state_version,
   state_snapshots |-> stored.versions,
   processed_requests |-> processed_requests,
   result |-> Failure("exception"),
   mid |-> state]

\* what a mutation interrupted before (after_record = FALSE) or after (TRUE)
\* the hand is recorded leaves behind
Interrupted(g, after_record) ==
  IF after_record THEN g ELSE [g EXCEPT !.hand_history = hand_history]

\* process_action from the lock to the return, when _do_process_action raises
LockedSectionRaising(a, strength, after_record) ==
  Rollback(CreateStateSnapshot(Engine, state_version, state_snapshots),
           Interrupted(DoProcessAction(Engine, a.player_id, a.action, a.amount,
                                       strength).g,
                       after_record))

NoArgs == [player_id |-> -1, action |-> None, amount |-> 0, request_id |-> NoRequest]

\* the arguments callers pass
PlayerIds(s) == 0..N(s)
Amounts(action) == IF action = "raise" THEN 1..MaxRaise ELSE {0}
CallArgs(s) ==
  {a \in [player_id : PlayerIds(s), action : PlayerAction, amount : 0..MaxRaise,
          request_id : {NoRequest}] : a.amount \in Amounts(a.action)}
StrengthChoices(s) ==
  IF s.phase = "RIVER" THEN Strengths(s) ELSE {[i \in Seats(s) |-> 1]}

SetEngine(g) ==
  /\ state' = g.state
  /\ chip_movements' = g.chip_movements
  /\ hand_history' = g.hand_history

Leave(r) ==
  /\ SetEngine(r.g)
  /\ state_version' = r.state_version
  /\ state_snapshots' = r.state_snapshots
  /\ processed_requests' = r.processed_requests

(***************************************************************************)
(* Initial state: PokerGame.__init__ / _initialize_game_state.             *)
(***************************************************************************)
InitialStack(cfg, i) ==
  (IF i = 0 THEN cfg.heroStack ELSE cfg.opponentStacks[i]) * cfg.bigBlind

InitializeGameState(cfg, dealer_position) ==
  [phase |-> "WAITING",
   players |-> [i \in 0..(NumPlayers(cfg) - 1) |->
                  [stack |-> InitialStack(cfg, i), has_folded |-> FALSE, hole_cards |-> 0,
                   current_bet |-> 0, total_bet_this_hand |-> 0, last_action |-> None]],
   board_cards |-> 0,
   deck |-> DeckSize,
   pots |-> <<[amount |-> 0, eligible_players |-> 0..(NumPlayers(cfg) - 1)]>>,
   current_bet |-> 0,
   min_raise |-> cfg.bigBlind,
   dealer_position |-> dealer_position,
   action_on |-> -1,
   big_blind |-> cfg.bigBlind,
   small_blind |-> cfg.bigBlind \div 2,
   hand_number |-> 0,
   awaiting_card_deal |-> FALSE,
   all_players_all_in |-> FALSE,
   cards_dealt_for_phase |-> {}]

\* no call of evaluate_hand has returned
NoEvaluation == [rank |-> 0, value |-> <<>>]

NoReturn == [caller |-> 0, args |-> NoArgs, result |-> Failure(None), cached |-> FALSE]

InitGame(configs) ==
  /\ config \in configs
  /\ \E d \in 0..(NumPlayers(config) - 1) : state = InitializeGameState(config, d)
  /\ hand_history = <<>>
  /\ chip_movements = <<>>
  /\ state_version = 0
  /\ state_snapshots = {}
  /\ processed_requests = [r \in RequestIds |-> NoEntry]
  /\ action_lock = NoCaller
  /\ pc = [c \in Callers |-> "idle"]
  /\ args = [c \in Callers |-> NoArgs]
  /\ now = 0
  /\ returned = NoReturn
  /\ connections = <<>>
  /\ room_lock = [locked |-> FALSE, waiters |-> <<>>]
  /\ tasks = [t \in 1..NumTasks |-> <<>>]

InitWith(configs) ==
  /\ InitGame(configs)
  /\ all_cards = {}
  /\ best_eval = NoEvaluation

Init == InitWith(Configs)
ShellInit == InitWith(ShellConfigs)

shellVars == <<state_version, state_snapshots, processed_requests>>
evalVars == <<all_cards, best_eval>>
roomVars == <<connections, room_lock, tasks>>
callerVars == <<action_lock, pc, args, returned>>
engineVars == <<state, hand_history, chip_movements>>

(***************************************************************************)
(* Operations outside the lock.                                            *)
(***************************************************************************)
\* PokerGame.start_new_hand
StartNewHand ==
  /\ state.hand_number < MaxHands
  /\ SetEngine(IF Cardinality(Funded(state)) <= 1 THEN Engine
               ELSE StartNewHandBody(Engine))
  /\ UNCHANGED <<config, evalVars, roomVars, shellVars, callerVars, now>>

\* PokerGame.deal_next_phase_cards
DealNextPhaseCards ==
  /\ state' = IF DealRejectReason(state) # None THEN state ELSE DealNextPhaseCardsBody(state)
  /\ UNCHANGED <<config, evalVars, roomVars, hand_history, chip_movements, shellVars, callerVars, now>>

\* PokerGame.advance_all_in_phase
AdvanceAllInPhase ==
  /\ \E strength \in StrengthChoices(state) :
       \E g \in {IF ~state.all_players_all_in THEN Engine
                 ELSE AdvancePhase(Engine, strength)} : SetEngine(g)
  /\ UNCHANGED <<config, evalVars, roomVars, shellVars, callerVars, now>>

(***************************************************************************)
(* process_action, sequentially: one call from its first line to its       *)
(* return, without a request id.                                           *)
(***************************************************************************)
ProcessAction ==
  /\ \A c \in Callers : pc[c] = "idle"
  /\ state_version < MaxVersion
  /\ \E a \in CallArgs(state), strength \in StrengthChoices(state) :
       Leave(LockedSection(a, strength))
  /\ UNCHANGED <<config, evalVars, roomVars, callerVars, now>>

Next ==
  \/ StartNewHand
  \/ DealNextPhaseCards
  \/ AdvanceAllInPhase
  \/ ProcessAction

Spec == Init /\ [][Next]_vars

\* the same operations on the four-handed games
SetupInit == InitWith(SetupConfigs)
SetupSpec == SetupInit /\ [][Next]_vars

(***************************************************************************)
(* core/hand_evaluator.py.  A card is [rank, suit] as Card.__init__ reads  *)
(* it from its string; an evaluation is the rank and the value of a        *)
(* HandEvaluation, the two fields its comparisons use.                     *)
(***************************************************************************)
\* the cards rank sorts descending: "sorted(cards, key=lambda c: c.rank, reverse=True)"
\* followed by "ranks = [c.rank for c in cards]"
RECURSIVE SortedRanks(_)
SortedRanks(cards) ==
  IF cards = {} THEN <<>>
  ELSE LET c == CHOOSE c \in cards : \A d \in cards : d.rank <= c.rank
       IN <<c.rank>> \o SortedRanks(cards \ {c})

\* "rank_counts = Counter(ranks)"
RankCounts(cards) ==
  [r \in {c.rank : c \in cards} |-> Cardinality({c \in cards : c.rank = r})]

\* "rank_groups = sorted(rank_counts.items(), key=lambda x: (x[1], x[0]), reverse=True)":
\* the ranks in that order
RECURSIVE RankGroups(_, _)
RankGroups(rank_counts, left) ==
  IF left = {} THEN <<>>
  ELSE LET r == CHOOSE r \in left :
                  \A q \in left : \/ rank_counts[q] < rank_counts[r]
                                  \/ rank_counts[q] = rank_counts[r] /\ q <= r
       IN <<r>> \o RankGroups(rank_counts, left \ {r})

\* "list(range(ranks[0], ranks[0]-5, -1))"
RangeDown(high) == [k \in 1..5 |-> high - (k - 1)]

\* the descending sort of a list of ranks
RECURSIVE SortedDescending(_)
SortedDescending(ranks) ==
  IF ranks = {} THEN <<>>
  ELSE LET r == CHOOSE r \in ranks : \A q \in ranks : q <= r
       IN <<r>> \o SortedDescending(ranks \ {r})

HandEvaluation(rank, value) == [rank |-> rank, value |-> value]

\* "straight_high = ranks[0]" for every straight
StraightHighOfFirstCard(ranks) == ranks[1]

\* the straight check of evaluate_five_cards: straight_high, 0 if the ranks
\* are no straight ("is_straight = False")
StraightHigh(ranks) ==
  IF ranks = RangeDown(ranks[1]) THEN ranks[1]
  ELSE IF ranks = <<14, 5, 4, 3, 2>> THEN 5
  ELSE 0

\* evaluate_five_cards
EvaluateFiveCards(cards) ==
  LET ranks == SortedRanks(cards)
      is_flush == Cardinality({c.suit : c \in cards}) = 1
      is_straight == ranks = RangeDown(ranks[1]) \/ ranks = <<14, 5, 4, 3, 2>>
      straight_high == StraightHigh(ranks)
      rank_counts == RankCounts(cards)
      rank_groups == RankGroups(rank_counts, DOMAIN rank_counts)
      counts == [k \in 1..Len(rank_groups) |-> rank_counts[rank_groups[k]]]
  IN CASE is_straight /\ is_flush ->
            IF ranks = <<14, 13, 12, 11, 10>> THEN HandEvaluation(ROYAL_FLUSH, <<10>>)
            ELSE HandEvaluation(STRAIGHT_FLUSH, <<straight_high>>)
       [] counts = <<4, 1>> ->
            HandEvaluation(FOUR_OF_A_KIND, <<rank_groups[1], rank_groups[2]>>)
       [] counts = <<3, 2>> ->
            HandEvaluation(FULL_HOUSE, <<rank_groups[1], rank_groups[2]>>)
       [] is_flush -> HandEvaluation(FLUSH, ranks)
       [] is_straight -> HandEvaluation(STRAIGHT, <<straight_high>>)
       [] counts = <<3, 1, 1>> ->
            HandEvaluation(THREE_OF_A_KIND, <<rank_groups[1]>> \o SubSeq(rank_groups, 2, 3))
       [] counts = <<2, 2, 1>> ->
            HandEvaluation(TWO_PAIR,
                           <<Max(rank_groups[1], rank_groups[2]),
                             Min(rank_groups[1], rank_groups[2]), rank_groups[3]>>)
       [] counts = <<2, 1, 1, 1>> ->
            HandEvaluation(ONE_PAIR,
                           <<rank_groups[1]>>
                           \o SortedDescending({rank_groups[k] : k \in 2..4}))
       [] OTHER -> HandEvaluation(HIGH_CARD, ranks)

\* Python's tuple comparison a < b
RECURSIVE TupleLess(_, _)
TupleLess(a, b) ==
  IF a = <<>> THEN b # <<>>
  ELSE IF b = <<>> THEN FALSE
  ELSE IF Head(a) # Head(b) THEN Head(a) < Head(b)
  ELSE TupleLess(Tail(a), Tail(b))

\* HandEvaluation.__lt__
EvaluationLess(self, other) ==
  IF self.rank # other.rank THEN self.rank < other.rank
  ELSE TupleLess(self.value, other.value)

\* "combinations(all_cards, 5)"
Combinations(cards, k) == {five \in SUBSET cards : Cardinality(five) = k}

\* the loop of evaluate_hand over the combinations still to visit: eval_result >
\* best_eval is decided by best_eval.__lt__(eval_result)
RECURSIVE BestOf(_, _)
BestOf(combinations, best) ==
  IF combinations = {} THEN best
  ELSE LET five_cards == CHOOSE five \in combinations : TRUE
           eval_result == EvaluateFiveCards(five_cards)
       IN BestOf(combinations \ {five_cards},
                 IF best = NoEvaluation \/ EvaluationLess(best, eval_result)
                 THEN eval_result ELSE best)

\* evaluate_hand
EvaluateHand(cards) == BestOf(Combinations(cards, 5), NoEvaluation)

\* the cards evaluate_hand is called with: seven cards of a deck of the ranks
\* 2..MaxLowRank and the ace in the suits 0..MaxSuit (hole cards and community
\* cards are concatenated before anything else is done with them)
EvalDeck == [rank : (2..MaxLowRank) \cup {14}, suit : 0..MaxSuit]
EvalInit ==
  /\ InitGame(ShellConfigs)
  /\ state.dealer_position = 0
  /\ all_cards \in Combinations(EvalDeck, 7)
  /\ best_eval = NoEvaluation

\* a call of evaluate_hand
Evaluate ==
  /\ best_eval = NoEvaluation
  /\ best_eval' = EvaluateHand(all_cards)
  /\ UNCHANGED <<config, all_cards, roomVars, engineVars, shellVars, callerVars, now>>

EvalNext == Evaluate

EvalSpec == EvalInit /\ [][EvalNext]_vars

(***************************************************************************)
(* process_action with concurrent callers.  A caller is idle, or has passed *)
(* the duplicate-request check and is at "async with self._action_lock"     *)
(* (acquire), or is inside the lock (locked).  Each await is a point where  *)
(* the event loop may run another caller.                                   *)
(***************************************************************************)
\* the arguments the concurrent callers pass
ShellCallArgs(s) ==
  [player_id : {PlayerAtIndex(s, s.action_on)}, action : {"fold", "check", "call"},
   amount : {0}, request_id : RequestIds \cup {NoRequest}]

\* "timestamp, cached_result = self._processed_requests[request_id]"
CachedResult(requests, request_id) == (CHOOSE e \in requests[request_id] : TRUE).result

LockAlwaysFree(lock) == TRUE

\* asyncio.Lock: can the lock be taken?
LockFree(lock) == lock = NoCaller

Return(c, a, result, cached) ==
  returned' = [caller |-> c, args |-> a, result |-> result, cached |-> cached]

\* process_action up to the lock: the duplicate-request check
Begin(c) ==
  /\ pc[c] = "idle"
  /\ state_version < MaxShellVersion
  /\ \E a \in ShellCallArgs(state) :
       IF a.request_id = NoRequest
       THEN /\ pc' = [pc EXCEPT ![c] = "acquire"]
            /\ args' = [args EXCEPT ![c] = a]
            /\ UNCHANGED <<processed_requests, returned>>
       ELSE LET cleaned == CleanupRequestCache(processed_requests, now)
            IN /\ processed_requests' = cleaned
               /\ IF cleaned[a.request_id] # NoEntry
                  THEN /\ Return(c, a, CachedResult(cleaned, a.request_id), TRUE)
                       /\ UNCHANGED <<pc, args>>
                  ELSE /\ pc' = [pc EXCEPT ![c] = "acquire"]
                       /\ args' = [args EXCEPT ![c] = a]
                       /\ UNCHANGED returned
  /\ UNCHANGED <<config, evalVars, roomVars, engineVars, state_version, state_snapshots, action_lock, now>>

\* "async with self._action_lock": entering
Acquire(c) ==
  /\ pc[c] = "acquire"
  /\ LockFree(action_lock)
  /\ action_lock' = {c}
  /\ pc' = [pc EXCEPT ![c] = "locked"]
  /\ UNCHANGED <<config, evalVars, roomVars, engineVars, shellVars, args, now, returned>>

Finish(c, r) ==
  /\ Leave(r)
  /\ Return(c, args[c], r.result, FALSE)
  /\ pc' = [pc EXCEPT ![c] = "idle"]
  /\ args' = [args EXCEPT ![c] = NoArgs]
  /\ action_lock' = NoCaller
  /\ UNCHANGED <<config, evalVars, roomVars, now>>

\* the body of "async with self._action_lock" and the release
Execute(c) ==
  /\ pc[c] = "locked"
  /\ \E strength \in StrengthChoices(state) : Finish(c, LockedSection(args[c], strength))

\* the same, with _do_process_action raising while it mutates
ExecuteRaises(c) ==
  /\ pc[c] = "locked"
  /\ state.phase # "GAME_OVER"
  /\ Len(hand_history) < MaxShellRecords
  /\ \E strength \in StrengthChoices(state), after_record \in BOOLEAN :
       /\ LockedSection(args[c], strength).result.success
       /\ Finish(c, LockedSectionRaising(args[c], strength, after_record))

\* time.time() advances
Tick ==
  /\ now + TickStep <= MaxTime
  /\ now' = now + TickStep
  /\ UNCHANGED <<config, evalVars, roomVars, engineVars, shellVars, callerVars>>

\* PokerGame.start_new_hand while callers are at work
ShellStartNewHand ==
  /\ state.hand_number < MaxShellHands
  /\ StartNewHand

ShellNext ==
  \/ ShellStartNewHand
  \/ Tick
  \/ \E c \in Callers : Begin(c)
  \/ \E c \in Callers : Acquire(c)
  \/ \E c \in Callers : Execute(c)
  \/ \E c \in Callers : ExecuteRaises(c)

ShellSpec == ShellInit /\ [][ShellNext]_vars

(***************************************************************************)
(* Properties of process_action under Spec.                                *)
(***************************************************************************)
\* the process_action calls that can be made in the current state, each with
\* what it returns and leaves
Outcomes ==
  {[a |-> a, r |-> LockedSection(a, strength)] :
     a \in CallArgs(state), strength \in StrengthChoices(state)}
Accepted(o) == o.r.result.success
Rejected(o) ==
  /\ ~o.r.result.success
  /\ o.r.result.error # None
Unchanged(o) ==
  /\ o.r.g.state = state
  /\ o.r.state_version = state_version
Seat(o) == GetPlayerById(state, o.a.player_id)

\* a step of Spec in which process_action accepted an action
AcceptedStep == state_version' = state_version + 1

\* C1: chip conservation -- a process_action call that starts with the
\* configured chip total (sum of stack + total_bet_this_hand over the players)
\* ends with it
C1_ChipConservation ==
  [][AcceptedStep /\ ChipTotal(state) = ExpectedTotal(config)
       => ChipTotal(state') = ExpectedTotal(config)]_vars

\* the cases of an illegal action
UnknownPlayer(o) == Seat(o) = -1
FoldedPlayer(o) == Seat(o) # -1 /\ state.players[Seat(o)].has_folded
NotOnTurn(o) == Seat(o) # -1 /\ state.action_on # Seat(o)
CheckFacingBet(o) ==
  /\ Seat(o) # -1
  /\ o.a.action = "check"
  /\ state.current_bet > state.players[Seat(o)].current_bet
RaiseBelowMinimum(o) == o.a.action = "raise" /\ o.a.amount < state.min_raise
NoHandInProgress == state.phase \in {"WAITING", "SHOWDOWN", "GAME_OVER"}

\* C6: an action from an unknown, folded or off-turn player, a CHECK facing a
\* bet, a RAISE below min_raise and any action while no hand is in progress are
\* rejected with an error and leave the game state and state_version unchanged
C6_IllegalActionsDoNotMutate ==
  \A o \in Outcomes :
    (\/ UnknownPlayer(o) \/ FoldedPlayer(o) \/ NotOnTurn(o)
     \/ CheckFacingBet(o) \/ RaiseBelowMinimum(o) \/ NoHandInProgress)
    => Rejected(o) /\ Unchanged(o)

\* C7: a CHECK is accepted only if the table current_bet does not exceed the
\* checking player's own current_bet
C7_CheckLegality ==
  \A o \in Outcomes :
    o.a.action = "check" /\ Accepted(o)
    => state.current_bet <= state.players[Seat(o)].current_bet

\* what the RAISE clause does to min_raise
RaiseRule ==
  \A o \in Outcomes :
    /\ o.r.mid.min_raise >= state.min_raise
    /\ o.a.action = "raise" =>
         /\ o.a.amount < state.min_raise => Rejected(o) /\ Unchanged(o)
         /\ Accepted(o) => /\ o.a.amount >= state.min_raise
                           /\ o.r.mid.min_raise = Max(state.min_raise, o.a.amount)
         /\ ~Accepted(o) => o.r.mid.min_raise = state.min_raise
    /\ o.a.action # "raise" => o.r.mid.min_raise = state.min_raise

\* a step that opens a betting round: a new hand, or all bets reset to zero
OpensBettingRound ==
  \/ state'.hand_number # state.hand_number
  \/ /\ state'.current_bet = 0
     /\ \A i \in Seats(state') : state'.players[i].current_bet = 0

\* C8: a RAISE below min_raise is rejected, an accepted RAISE of amount a is at
\* least min_raise and sets min_raise to max(min_raise, a), and min_raise only
\* decreases when a new betting round opens (where it restarts at the big
\* blind), so within a round it never decreases and an accepted raise amount is
\* at least every earlier accepted raise amount of the round
C8_MinimumRaise ==
  /\ []RaiseRule
  /\ [][state'.min_raise < state.min_raise
         => OpensBettingRound /\ state'.min_raise = state'.big_blind]_vars

\* C9: a RAISE the player's stack cannot cover (the call plus the minimum
\* raise) is rejected and changes nothing, and an accepted RAISE moves the full
\* current_bet + amount - player.current_bet, never a reduced amount
C9_UnfundableRaiseRejected ==
  \A o \in Outcomes :
    o.a.action = "raise" /\ Seat(o) # -1 =>
      LET p == state.players[Seat(o)]
          to_call == state.current_bet - p.current_bet
      IN /\ p.stack < to_call + state.min_raise => Rejected(o) /\ Unchanged(o)
         /\ Accepted(o) =>
              p.stack - o.r.mid.players[Seat(o)].stack = to_call + o.a.amount

\* C10: an accepted CALL moves min(current_bet - player.current_bet, stack)
\* chips from the stack to the player's bets, and when that is the whole stack
\* the recorded last action is all_in
C10_CallAmount ==
  \A o \in Outcomes :
    o.a.action = "call" /\ Accepted(o) =>
      LET p == state.players[Seat(o)]
          q == o.r.mid.players[Seat(o)]
          call_amount == Min(state.current_bet - p.current_bet, p.stack)
      IN /\ p.stack - q.stack = call_amount
         /\ q.current_bet - p.current_bet = call_amount
         /\ q.total_bet_this_hand - p.total_bet_this_hand = call_amount
         /\ call_amount = p.stack /\ p.stack > 0 => q.last_action = "all_in"

(***************************************************************************)
(* Properties of process_action under ShellSpec.                           *)
(***************************************************************************)
\* a step in which caller c leaves the lock with a result
Leaves(c) == pc[c] = "locked" /\ pc'[c] = "idle"
\* a step in which a call returns the cached result of its request id
CacheHit == returned' # returned /\ returned'.cached

\* C2: at most one caller is between lock acquisition and release, and it is
\* the caller recorded as holding the lock
C2_MutualExclusion ==
  /\ Cardinality({c \in Callers : pc[c] = "locked"}) <= 1
  /\ action_lock = {c \in Callers : pc[c] = "locked"}

C2_Witness == \E c, d \in Callers : pc[c] = "locked" /\ pc[d] = "acquire"

C5_RollbackOnException ==
  [][\A c \in Callers :
       Leaves(c) /\ returned'.result.error = "exception"
       => /\ ~returned'.result.success
          /\ UNCHANGED <<state, state_version, chip_movements, hand_history>>]_vars

C8_Witness ==
  /\ state.phase = "PRE_FLOP"
  /\ state.min_raise > state.big_blind
  /\ \E o \in Outcomes : o.a.action = "raise" /\ o.a.amount < state.min_raise /\ Rejected(o)
  /\ \E o \in Outcomes : o.a.action = "raise" /\ Accepted(o)

(***************************************************************************)
(* Properties of the hand's end and of the pot engine under Spec.          *)
(***************************************************************************)
\* the chips the players have committed in the hand
Committed(s) == SumOver([i \in Seats(s) |-> s.players[i].total_bet_this_hand], Seats(s))

\* an accepted FOLD after which one player has not folded
FoldOutCall(o) ==
  /\ o.a.action = "fold"
  /\ Accepted(o)
  /\ Cardinality(PlayersInHand(o.r.mid)) = 1
SoleRemaining(o) == CHOOSE i \in PlayersInHand(o.r.mid) : TRUE

\* C11: a FOLD that leaves exactly one player in the hand ends the hand in the
\* same call: no card is dealt and no hand strength enters the result, the sole
\* remaining player receives every chip committed in the hand, all bets and
\* pots are cleared, action_on is -1 and the phase is GAME_OVER
C11_FoldOut ==
  \A o \in Outcomes :
    FoldOutCall(o) =>
      LET after == o.r.g.state
          winner == SoleRemaining(o)
      IN /\ after.phase = "GAME_OVER"
         /\ after.action_on = -1
         /\ after.board_cards = state.board_cards
         /\ after.deck = state.deck
         /\ \A o2 \in Outcomes : o2.a = o.a => o2.r = o.r
         /\ PotTotal(after) = 0
         /\ \A i \in Seats(after) : /\ after.players[i].current_bet = 0
                                    /\ after.players[i].total_bet_this_hand = 0
         /\ \A i \in Seats(after) \ {winner} : after.players[i].stack = state.players[i].stack
         /\ after.players[winner].stack = state.players[winner].stack + Committed(state)

\* the chip movements a call appends to the trail
NewMovements(o) ==
  SubSeq(o.r.g.chip_movements, Len(chip_movements) + 1, Len(o.r.g.chip_movements))
\* the chips the call moved for one of the reasons
Moved(o, reasons) ==
  LET m == NewMovements(o)
  IN SumOver([k \in 1..Len(m) |-> m[k].amount], {k \in 1..Len(m) : m[k].reason \in reasons})

StackTotal(s) == SumOver([i \in Seats(s) |-> s.players[i].stack], Seats(s))

\* M: the largest total_bet_this_hand among the folded players
MaxFoldedBet(s) ==
  SetMax({s.players[i].total_bet_this_hand : i \in Seats(s) \ PlayersInHand(s)})
\* the sum over all players of min(total_bet_this_hand, M)
CalledTotal(s) ==
  SumOver([i \in Seats(s) |-> Min(s.players[i].total_bet_this_hand, MaxFoldedBet(s))],
          Seats(s))
\* what the remaining player committed above M
UncalledExcess(o) ==
  o.r.mid.players[SoleRemaining(o)].total_bet_this_hand - MaxFoldedBet(o.r.mid)

\* C12: in a fold-out where the remaining player committed more than every
\* folded player, the excess over M is returned to the winner's stack and is not
\* in the awarded pot, the awarded pot is the sum of min(total_bet_this_hand, M)
\* over all players, and the stacks add up to the configured total afterwards
C12_UncalledBet ==
  \A o \in Outcomes :
    /\ FoldOutCall(o)
    /\ ChipTotal(state) = ExpectedTotal(config)
    /\ UncalledExcess(o) > 0
    => /\ Moved(o, {"uncalled_bet_return", "own_bet_return"}) = UncalledExcess(o)
       /\ Moved(o, {"pot_won_fold"}) = CalledTotal(o.r.mid)
       /\ o.r.g.state.players[SoleRemaining(o)].stack =
            state.players[SoleRemaining(o)].stack + UncalledExcess(o) + CalledTotal(o.r.mid)
       /\ StackTotal(o.r.g.state) = ExpectedTotal(config)

\* the distinct positive commitments of the players who have not folded, ascending
CommitmentLevels(s) ==
  SortedSeq({s.players[i].total_bet_this_hand : i \in PlayersInHand(s)} \ {0})
\* the pot of level L above the previous level P
LevelPot(s, L, P) ==
  [amount |-> SumOver([i \in Seats(s) |-> Min(L, s.players[i].total_bet_this_hand)
                                          - Min(P, s.players[i].total_bet_this_hand)],
                      Seats(s)),
   eligible_players |-> {i \in PlayersInHand(s) : s.players[i].total_bet_this_hand >= L}]
LevelPots(s) ==
  LET levels == CommitmentLevels(s)
  IN [k \in 1..Len(levels) |-> LevelPot(s, levels[k], IF k = 1 THEN 0 ELSE levels[k - 1])]

\* three players in the hand, one committed less than the two others, who
\* committed the same
TwoAllInsAndACaller(s) ==
  /\ Cardinality(PlayersInHand(s)) = 3
  /\ Len(CommitmentLevels(s)) = 2
  /\ Cardinality({i \in PlayersInHand(s) :
                    s.players[i].total_bet_this_hand = CommitmentLevels(s)[2]}) = 2

\* what computing the pots gives in the current state
SidePotRule ==
  Cardinality(PlayersInHand(state)) >= 2 /\ PotTotal(state) = 0 =>
    LET pots == CalculatePots(Engine).state.pots
    IN /\ pots = LevelPots(state)
       /\ TwoAllInsAndACaller(state) =>
            /\ Len(pots) = 2
            /\ pots[1].eligible_players = PlayersInHand(state)
            /\ pots[2].eligible_players =
                 {i \in PlayersInHand(state) :
                    state.players[i].total_bet_this_hand = CommitmentLevels(state)[2]}
            /\ pots[1].amount = 3 * CommitmentLevels(state)[1]
            /\ pots[2].amount = 2 * (CommitmentLevels(state)[2] - CommitmentLevels(state)[1])

\* a step that leaves newly computed pots in the state
PotsComputed == state'.pots # state.pots /\ state'.pots # <<>>

\* C13: with two or more players in the hand, computing the pots gives one pot
\* per distinct positive commitment level L of those players, in ascending
\* order, of amount sum over all players (min(L, c) - min(P, c)) and eligible to
\* exactly the players in the hand who committed at least L; two equal larger
\* commitments and a smaller one give a main pot for all three and a side pot
\* for the two larger contributors
C13_SidePots ==
  /\ []SidePotRule
  /\ [][PotsComputed /\ Cardinality(PlayersInHand(state')) >= 2
         => state'.pots = LevelPots(state')]_vars

\* an all-in of 2 and two players who committed 4 reach the pot computation
C13_Witness ==
  /\ TwoAllInsAndACaller(state)
  /\ state.all_players_all_in
  /\ Len(state.pots) = 2
  /\ state.pots = LevelPots(state)

\* a step that records a hand resolved at showdown
ShowdownRecorded ==
  /\ Len(hand_history') = Len(hand_history) + 1
  /\ state'.phase = "SHOWDOWN"
\* the record of the hand just resolved: the pots and every player's
\* total_bet_this_hand as they were when the pots were awarded
LastRecord == hand_history'[Len(hand_history')]
RecordedPotTotal(record) ==
  SumOver([k \in 1..Len(record.pots) |-> record.pots[k].amount], 1..Len(record.pots))
RecordedBetTotal(record) == SumOver(record.total_bet, DOMAIN record.total_bet)

\* C14: whenever pots are computed, on detecting that all remaining players are
\* all-in or immediately before showdown, the pot amounts add up to the sum of
\* all players' total_bet_this_hand, folded players included
C14_PotTotal ==
  /\ [][PotsComputed => PotTotal(state') = Committed(state')]_vars
  /\ [][ShowdownRecorded
         => RecordedPotTotal(LastRecord) = RecordedBetTotal(LastRecord)]_vars

(***************************************************************************)
(* Properties of the betting rounds under Spec.                            *)
(***************************************************************************)
BettingPhases == {"PRE_FLOP", "FLOP", "TURN", "RIVER"}

\* every player in the hand who still has chips has acted in the round and has
\* a round bet equal to the table bet
AllActedAndMatched(s) ==
  \A i \in ActivePlayers(s) : /\ s.players[i].last_action # None
                              /\ s.players[i].current_bet = s.current_bet

\* an accepted action in a betting round that leaves two or more players in the hand
RoundCall(o) ==
  /\ Accepted(o)
  /\ state.phase \in BettingPhases
  /\ Cardinality(PlayersInHand(o.r.mid)) >= 2
\* the call ended the betting round: the phase moved on
RoundEnded(o) == o.r.g.state.phase # state.phase

\* a step of any operation that moves the phase from a betting round to the
\* next street or to the showdown
LeavesRound ==
  /\ state.phase \in BettingPhases
  /\ state'.phase \in {"FLOP", "TURN", "RIVER", "SHOWDOWN"}
  /\ state'.phase # state.phase
  /\ state'.hand_number = state.hand_number

\* C15: the phase leaves a betting round only when every non-folded player
\* with chips has acted in the round and matched the table bet, and an accepted
\* action after which that holds ends the round in the same call
C15_RoundCompletion ==
  /\ [](\A o \in Outcomes :
          RoundCall(o) => (RoundEnded(o) <=> AllActedAndMatched(o.r.mid)))
  /\ [][LeavesRound /\ ~AcceptedStep => AllActedAndMatched(state)]_vars

\* the player who posted the big blind of the current hand: start_new_hand
\* records the small blind and then the big blind as the hand's first two bets
InCurrentHand(m) == m.hand_number = state.hand_number
BigBlindPoster ==
  LET posted == SelectSeq(chip_movements, InCurrentHand)
  IN IF Len(posted) >= 2 THEN posted[2].player_id ELSE -1

\* pre-flop, the big blind has chips and has not acted, and every other player
\* has at most called or folded
BigBlindOptionOpen ==
  /\ state.phase = "PRE_FLOP"
  /\ BigBlindPoster # -1
  /\ ~state.players[BigBlindPoster].has_folded
  /\ state.players[BigBlindPoster].stack > 0
  /\ state.players[BigBlindPoster].last_action = None
  /\ \A i \in Seats(state) \ {BigBlindPoster} :
       state.players[i].last_action \in {None, "call", "fold"}

RaiseCall(o) ==
  /\ Accepted(o)
  /\ o.a.action = "raise"
  /\ state.phase \in BettingPhases
\* the other players in the hand who have chips when the raise is made
OthersAbleToAct(o) == ActivePlayers(o.r.mid) \ {Seat(o)}

\* the raise leaves the round open with every other player still to act
RaiseReopensAction ==
  \A o \in Outcomes :
    RaiseCall(o) /\ OthersAbleToAct(o) # {} =>
      /\ o.r.g.state.phase = state.phase
      /\ o.r.g.state.action_on \in OthersAbleToAct(o)
      /\ \A i \in OthersAbleToAct(o) :
           \/ o.r.g.state.players[i].last_action = None
           \/ o.r.g.state.players[i].current_bet < o.r.g.state.current_bet

\* "A bets, B raises, C folds" with the action back on A: A and B have raised
\* in the round (a bet is a RAISE of this engine), B's raise stands, C has folded
BetRaiseFold(A, B, C) ==
  /\ Cardinality({A, B, C}) = 3
  /\ state.phase \in BettingPhases
  /\ state.action_on = A
  /\ {A, B} \subseteq ActivePlayers(state)
  /\ state.players[A].last_action = "raise"
  /\ state.players[B].last_action = "raise"
  /\ state.players[C].last_action = "fold"
  /\ state.players[A].current_bet < state.current_bet
  /\ state.players[B].current_bet = state.current_bet

\* in that sequence A has the next turn and, when A stays in, B has one after it
BothActAgain ==
  \A A, B, C \in Seats(state) :
    BetRaiseFold(A, B, C) =>
      \A o \in Outcomes :
        Seat(o) = A /\ Accepted(o) /\ o.a.action # "fold" =>
          /\ o.r.g.state.phase = state.phase
          /\ o.r.g.state.action_on = B

\* C17: after an accepted raise the round stays open until every other
\* non-folded player with chips, those who had already acted included, has had
\* another turn; after "A bets, B raises, C folds" A and B each act again
\* before the phase advances
C17_RaiseReopensAction == RaiseReopensAction /\ BothActAgain

\* an accepted ALL_IN that lifts the table current_bet by less than min_raise
ShortAllIn(o) ==
  /\ Accepted(o)
  /\ o.a.action = "all_in"
  /\ state.phase \in BettingPhases
  /\ o.r.mid.current_bet > state.current_bet
  /\ o.r.mid.current_bet - state.current_bet < state.min_raise
\* the other players with chips who had acted in the round and matched the
\* table current_bet before the all-in
ActedAndMatched(o) ==
  {i \in ActivePlayers(state) \ {Seat(o)} :
     /\ state.players[i].last_action # None
     /\ state.players[i].current_bet = state.current_bet}
\* the round waits for player i: the tests of _is_betting_round_complete
NeedsToAct(s, i) ==
  /\ i \in ActivePlayers(s)
  /\ Cardinality(PlayersInHand(s)) > 1
  /\ \/ s.players[i].last_action = None
     \/ s.players[i].current_bet < s.current_bet

\* C18: an ALL_IN that raises the table current_bet by less than min_raise does
\* not reopen betting -- the players who had already acted in the round and
\* matched the previous current_bet are not given another turn because of it
C18_ShortAllIn ==
  \A o \in Outcomes :
    ShortAllIn(o) =>
      \A i \in ActedAndMatched(o) :
        /\ o.r.g.state.action_on # i
        /\ o.r.g.state.phase = state.phase => ~NeedsToAct(o.r.g.state, i)

(***************************************************************************)
(* Properties of the all-in run-out and of the phase order under Spec.     *)
(***************************************************************************)
\* an accepted action in a betting round that leaves more than one player in
\* the hand and nobody with chips to act
AllInExhaustion(o) ==
  /\ Accepted(o)
  /\ state.phase \in BettingPhases
  /\ Cardinality(PlayersInHand(o.r.mid)) > 1
  /\ ActivePlayers(o.r.mid) = {}

\* C19: when an accepted action leaves more than one player in the hand and
\* nobody able to act, the same process_action call runs the hand out -- it
\* returns with the phase SHOWDOWN or the hand over and five cards on the board
C19_AllInExhaustion ==
  \A o \in Outcomes :
    AllInExhaustion(o) =>
      /\ o.r.g.state.phase \in {"SHOWDOWN", "GAME_OVER"}
      /\ o.r.g.state.board_cards = 5

\* the phase that follows a betting round
StreetAfter(phase) ==
  CASE phase = "PRE_FLOP" -> "FLOP"
    [] phase = "FLOP" -> "TURN"
    [] phase = "TURN" -> "RIVER"
    [] phase = "RIVER" -> "SHOWDOWN"
    [] OTHER -> phase
\* a step that ends the hand by a fold-out: a FOLD is accepted in any phase of
\* a hand, the showdown included
FoldOutStep ==
  /\ state.phase \in BettingPhases \cup {"SHOWDOWN"}
  /\ state'.phase = "GAME_OVER"
  /\ Cardinality(PlayersInHand(state')) = 1
  /\ Cardinality(PlayersInHand(state)) = 2
\* a step that starts a hand
NewHandStep ==
  /\ state'.hand_number = state.hand_number + 1
  /\ state'.phase = "PRE_FLOP"
\* what a step may do to the phase
PhaseStep ==
  IF state'.hand_number = state.hand_number
  THEN \/ state'.phase = state.phase
       \/ state'.phase = StreetAfter(state.phase)
       \/ FoldOutStep
  ELSE NewHandStep

\* C20: within one hand the phase moves one step at a time along PRE_FLOP,
\* FLOP, TURN, RIVER, SHOWDOWN, or jumps to GAME_OVER on a fold-out; no step
\* moves it backwards or skips a street, and PRE_FLOP is only entered by a
\* start_new_hand
C20_PhaseOrder == [][PhaseStep]_vars

\* a hand that went through every street to its showdown
C20_Witness ==
  /\ state.phase = "SHOWDOWN"
  /\ state.board_cards = 5
  /\ state.hand_number = 1
  /\ Len(hand_history) = 1

(***************************************************************************)
(* Properties of start_new_hand and of the players' fields under Spec.     *)
(***************************************************************************)
\* the next seat clockwise after seat pos among the seats in F
NextSeatIn(F, n, pos) ==
  LET steps == {k \in 1..n : ((pos + k) % n) \in F}
  IN (pos + (CHOOSE k \in steps : \A j \in steps : k <= j)) % n
\* the bets of the hand that state' is in, in the order they were recorded; the
\* first two are the blinds
NewHandBets ==
  SelectSeq(chip_movements', LAMBDA m : m.hand_number = state'.hand_number)
\* a step of start_new_hand that starts a hand
StartsHand == state'.hand_number = state.hand_number + 1

\* the seats start_new_hand is to use, from the stacks before the call
DealerSeat == NextSeatIn(Funded(state), N(state), state.dealer_position)
SmallBlindSeat ==
  IF Cardinality(Funded(state)) = 2 THEN DealerSeat
  ELSE NextSeatIn(Funded(state), N(state), DealerSeat)
BigBlindSeat == NextSeatIn(Funded(state), N(state), SmallBlindSeat)
FirstToActSeat ==
  IF Funded(state') = {} THEN -1
  ELSE NextSeatIn(Funded(state'), N(state), BigBlindSeat)

HandSetup ==
  /\ state'.dealer_position = DealerSeat
  /\ Len(NewHandBets) = 2
  /\ NewHandBets[1].player_id = SmallBlindSeat
  /\ NewHandBets[1].amount = -Min(state.small_blind, state.players[SmallBlindSeat].stack)
  /\ NewHandBets[2].player_id = BigBlindSeat
  /\ NewHandBets[2].amount = -Min(state.big_blind, state.players[BigBlindSeat].stack)
  /\ state'.action_on = FirstToActSeat
  /\ SmallBlindSeat # BigBlindSeat
  /\ {SmallBlindSeat, BigBlindSeat} \subseteq Funded(state)

\* C21: when at least two players have chips, start_new_hand moves the dealer
\* button to the next funded seat clockwise, has the dealer post the small blind
\* when exactly two players have chips and otherwise the first funded seat
\* after the dealer, has the next funded seat after the small blind post the
\* big blind, and sets action_on to the first player with chips to the left
\* of the big blind; the two blind seats are different funded seats, adjacent
\* in funded-seat order
C21_HandSetup == [][StartsHand => HandSetup]_vars

\* two hole cards for every player who had chips when the hand started, none
\* for the others
HoleCardsDealt ==
  \A i \in Seats(state) :
    state'.players[i].hole_cards = IF i \in Funded(state) THEN 2 ELSE 0
\* every non-folded player at a showdown holds two hole cards
ShowdownHoleCards ==
  state.phase = "SHOWDOWN" =>
    \A i \in PlayersInHand(state) : state.players[i].hole_cards = 2

\* C22: start_new_hand deals exactly two hole cards to every player who had
\* chips when the hand started, a player whose whole stack went into a blind
\* included, and none to players without chips; every non-folded player who
\* reaches showdown holds exactly two hole cards
C22_HoleCards ==
  /\ [][StartsHand => HoleCardsDealt]_vars
  /\ []ShowdownHoleCards

\* C23: in every reachable state every player has stack >= 0, current_bet >= 0
\* and current_bet <= total_bet_this_hand
C23_PlayerInvariants ==
  \A i \in Seats(state) :
    /\ state.players[i].stack >= 0
    /\ state.players[i].current_bet >= 0
    /\ state.players[i].current_bet <= state.players[i].total_bet_this_hand

\* a player who has gone all-in in the first betting round
C23_Witness ==
  \E i \in Seats(state) :
    /\ state.players[i].last_action = "all_in"
    /\ state.players[i].stack = 0
    /\ state.players[i].current_bet > 0
    /\ state.players[i].current_bet = state.players[i].total_bet_this_hand

\* a step in which the hand in progress concludes, by fold-out or by showdown
Concludes ==
  /\ state.phase \in BettingPhases
  /\ state'.phase \in {"SHOWDOWN", "GAME_OVER"}
  /\ state'.hand_number = state.hand_number
\* one record is appended when the hand concludes, none otherwise
HistoryStep ==
  IF Concludes
  THEN /\ Len(hand_history') = Len(hand_history) + 1
       /\ SubSeq(hand_history', 1, Len(hand_history)) = hand_history
       /\ hand_history'[Len(hand_history')].hand_number = state.hand_number
  ELSE hand_history' = hand_history
\* no two records of the hand history have the same hand_number
OneRecordPerHand ==
  \A k, l \in 1..Len(hand_history) :
    k # l => hand_history[k].hand_number # hand_history[l].hand_number

\* C24: exactly one hand-history record is appended each time a hand concludes,
\* by fold-out or by showdown, and none at any other time; the history never
\* holds two records with the same hand_number
C24_HandHistory ==
  /\ [][HistoryStep]_vars
  /\ []OneRecordPerHand

(***************************************************************************)
(* Properties of evaluate_hand under EvalSpec.                             *)
(***************************************************************************)
\* five cards of the ranks A, 2, 3, 4, 5
IsWheel(five) == {c.rank : c \in five} = {14, 5, 4, 3, 2}
\* five cards of the ranks 2, 3, 4, 5, 6
IsSixHigh(five) == {c.rank : c \in five} = 2..6
OneSuit(cards) == Cardinality({c.suit : c \in cards}) = 1
\* seven cards that hold a wheel and no better hand: no six, which every higher
\* straight needs, and no five cards of one suit; five distinct ranks among
\* seven cards leave no room for a full house or four of a kind
WheelIsBest(cards) ==
  /\ {14, 5, 4, 3, 2} \subseteq {c.rank : c \in cards}
  /\ \A c \in cards : c.rank # 6
  /\ \A five \in Combinations(cards, 5) : ~OneSuit(five)
\* among the five-card hands of the cards evaluated
WheelIsFiveHigh ==
  \A five \in Combinations(all_cards, 5) :
    IsWheel(five) =>
      /\ EvaluateFiveCards(five) =
           HandEvaluation(IF OneSuit(five) THEN STRAIGHT_FLUSH ELSE STRAIGHT, <<5>>)
      /\ \A other \in Combinations(all_cards, 5) :
           IsSixHigh(other) /\ (OneSuit(other) <=> OneSuit(five)) =>
             /\ EvaluationLess(EvaluateFiveCards(five), EvaluateFiveCards(other))
             /\ EvaluateFiveCards(other).value = <<6>>

\* C25: five cards A-2-3-4-5 evaluate as a Straight (a Straight Flush when
\* they are of one suit) whose tie-break value is 5, which compares strictly
\* below the 6-high straight; evaluate_hand on seven cards that hold a wheel
\* and no better five-card hand returns the Straight with value (5,)
C25_WheelStraight ==
  best_eval # NoEvaluation =>
    /\ WheelIsFiveHigh
    /\ WheelIsBest(all_cards) => best_eval = HandEvaluation(STRAIGHT, <<5>>)

\* a wheel with a pair beside it, evaluated
C25_Witness ==
  /\ best_eval = HandEvaluation(STRAIGHT, <<5>>)
  /\ WheelIsBest(all_cards)
  /\ Cardinality({c.rank : c \in all_cards}) = 5

\* ---------------------------------------------------------------------------
\* AIPlayer (game/ai_player.py): decide_action as the set of (action, amount)
\* pairs it can return in a state, over every hand strength and random draw
\* ---------------------------------------------------------------------------

Decision(action, amount) == [action |-> action, amount |-> amount]

\* to_call as decide_action and its helpers first compute it
ToCall(s, seat) == s.current_bet - s.players[seat].current_bet

\* 100 * (0.5 + aggression * 0.5) for the four difficulty levels
AggressionFactors == {65, 75, 85, 90}

\* the sum of p.current_bet over the players, added to the pots' amounts
BetsOnTable(s) == SumOver([i \in Seats(s) |-> s.players[i].current_bet], Seats(s))

\* _calculate_raise_amount: 0 when the minimum raise cannot be funded, else the
\* pot-sized raise clamped to [min_raise, max_raise], or max_raise itself
CalculateRaiseAmount(s, seat) ==
  LET pot_size == PotTotal(s) + BetsOnTable(s)
      max_raise == s.players[seat].stack - ToCall(s, seat)
  IN IF max_raise < s.min_raise THEN {0}
     ELSE {Max(s.min_raise, Min((pot_size * f) \div 100, max_raise)) : f \in AggressionFactors}
          \cup {max_raise}

\* "if raise_amount > 0: RAISE else: <fallback>"
RaiseIfPositive(s, seat, fallback) ==
  {IF amt > 0 THEN Decision("raise", amt) ELSE Decision(fallback, 0) :
     amt \in CalculateRaiseAmount(s, seat)}

\* the "Facing a bet" branch shared by _preflop_decision and _postflop_decision,
\* which differ in thresholds only
FacingBet(s, seat) ==
  LET to_call == ToCall(s, seat)
      stack == s.players[seat].stack
  IN IF to_call >= stack THEN {Decision("all_in", 0), Decision("fold", 0)}
     ELSE {Decision("fold", 0), Decision("call", 0)}
          \cup (IF stack > to_call * 3 THEN RaiseIfPositive(s, seat, "call") ELSE {})

\* _preflop_decision
PreflopDecision(s, seat) ==
  IF ToCall(s, seat) = 0
  THEN IF s.current_bet > s.players[seat].current_bet THEN {Decision("call", 0)}
       ELSE RaiseIfPositive(s, seat, "check") \cup {Decision("check", 0)}
  ELSE FacingBet(s, seat)

\* _postflop_decision: with no bet to call the raise amount is returned untested
PostflopDecision(s, seat) ==
  IF ToCall(s, seat) = 0
  THEN IF s.current_bet > s.players[seat].current_bet THEN {Decision("call", 0)}
       ELSE {Decision("raise", amt) : amt \in CalculateRaiseAmount(s, seat)}
            \cup {Decision("check", 0)}
  ELSE FacingBet(s, seat)

\* _random_action
RandomAction(s, seat) ==
  LET to_call == ToCall(s, seat)
      stack == s.players[seat].stack
  IN IF to_call = 0
     THEN {Decision("check", 0)} \cup RaiseIfPositive(s, seat, "check")
     ELSE IF to_call >= stack THEN {Decision("all_in", 0), Decision("fold", 0)}
          ELSE {Decision("fold", 0), Decision("call", 0)}
               \cup (IF stack > to_call * 2 THEN RaiseIfPositive(s, seat, "call") ELSE {})

\* the two "Final validation" steps of decide_action
FinalValidation(s, seat, d) ==
  LET to_call == Max(0, ToCall(s, seat))
      a1 == IF d.action = "check" /\ s.current_bet > s.players[seat].current_bet
            THEN "call" ELSE d.action
      a2 == IF a1 = "call" /\ to_call >= s.players[seat].stack THEN "all_in" ELSE a1
  IN Decision(a2, d.amount)

\* decide_action: the random action is returned as it is; _get_poker_analysis
\* returns None (it reads game_state.current_player_index, which GameState does
\* not have, inside its try block), so the simple logic decides otherwise
DecideAction(s, seat) ==
  RandomAction(s, seat)
  \cup {FinalValidation(s, seat, d) :
          d \in IF s.phase = "PRE_FLOP" THEN PreflopDecision(s, seat)
                ELSE PostflopDecision(s, seat)}

\* an AI player (every seat but the hero's) whose turn it is in a betting round
AIOnTurn(seat) ==
  /\ seat \in Seats(state) \ {0}
  /\ state.phase \in BettingPhases
  /\ state.action_on = seat
  /\ ~state.players[seat].has_folded
  /\ state.players[seat].stack > 0

\* process_action accepts the decision d of the player at seat
EngineAccepts(seat, d) ==
  \A strength \in StrengthChoices(state) :
    LockedSection([player_id |-> seat, action |-> d.action, amount |-> d.amount,
                   request_id |-> NoRequest], strength).result.success

LegalDecision(seat, d) ==
  LET p == state.players[seat]
      to_call == state.current_bet - p.current_bet
  IN /\ EngineAccepts(seat, d)
     /\ d.action = "check" => ~(state.current_bet > p.current_bet)
     /\ d.action = "call" => to_call < p.stack
     /\ d.action = "raise" => d.amount >= state.min_raise /\ d.amount <= p.stack - to_call

\* C26: whenever an AI player is on turn, every action decide_action can return
\* is accepted by the engine: no CHECK facing a bet, no CALL for the whole stack
\* or more, and a RAISE only of at least min_raise that the stack covers after
\* calling
C26_AIDecisionsLegal ==
  \A seat \in Seats(state) :
    AIOnTurn(seat) => \A d \in DecideAction(state, seat) : LegalDecision(seat, d)

\* the arguments of the process_action calls that can be made in the current
\* state, each under a request id
FlagArgs == {[a EXCEPT !.request_id = id] : a \in CallArgs(state), id \in RequestIds}

\* what _do_process_action returns and leaves when called with a's arguments
Processed(a, strength) ==
  DoProcessAction(Engine, a.player_id, a.action, a.amount, strength)

\* _do_process_action, having returned and left p, accepted the action and the
\* validation of the state it left finds errors
Flagged(p) ==
  /\ state.phase # "GAME_OVER"
  /\ p.result.success
  /\ ValidateGameState(p.g.state, config) # {}

\* process_action, returning and leaving r, returns success with the errors
\* attached, keeps what the action left, increments state_version and caches
\* the result
Continued(a, p, r) ==
  /\ r.result.success
  /\ r.result.validation_errors = ValidateGameState(p.g.state, config)
  /\ r.result.state = p.result.state
  /\ r.g = p.g
  /\ r.state_version = state_version + 1
  /\ r.processed_requests[a.request_id] = {[timestamp |-> now, result |-> r.result]}

\* C27: when the validation after an accepted action finds errors the action
\* is not rolled back: the call returns success with the errors attached, the
\* state the action produced is kept, state_version is incremented and the
\* result is cached under the request id of the call
C27_FlagAndContinue ==
  \A a \in FlagArgs, strength \in StrengthChoices(state) :
    \A p \in {Processed(a, strength)} :
      Flagged(p) => \A r \in {LockedSection(a, strength)} : Continued(a, p, r)

\* in the first hand, with every chip accounted for and no error in the state,
\* an action that changes the state is accepted and leaves a state with errors
C27_Witness ==
  /\ state.hand_number = 1
  /\ ValidateGameState(state, config) = {}
  /\ \E a \in FlagArgs, strength \in StrengthChoices(state) :
       \E p \in {Processed(a, strength)} :
         /\ Flagged(p)
         /\ p.g.state # state
         /\ LockedSection(a, strength).result.validation_errors # {}

\* the players who have not folded and still have chips
CanAct(s) == {i \in Seats(s) : ~s.players[i].has_folded /\ s.players[i].stack > 0}

\* action_on names a player who can act, or nobody while nobody can act
ActionPositionValid(s) ==
  \/ s.action_on \in CanAct(s)
  \/ s.action_on = -1 /\ CanAct(s) = {}

\* C28: after start_new_hand and after every accepted process_action, while
\* the phase is PRE_FLOP, FLOP, TURN or RIVER, action_on is the seat of a
\* player who has not folded and has chips, or it is -1 and no player who has
\* not folded has chips
C28_ActionPosition ==
  [][(StartsHand \/ AcceptedStep) /\ state'.phase \in BettingPhases
       => ActionPositionValid(state')]_vars

\* the call passes the guards and its action clause while the phase is RIVER
\* with fewer than five board cards, and the betting round is complete after it
RiverRoundCompletesShort(o) ==
  /\ state.phase = "RIVER"
  /\ state.board_cards < 5
  /\ RejectReason(state, o.a.player_id) = None
  /\ ApplyAction(Engine, Seat(o), o.a.action, o.a.amount).ok
  /\ Cardinality(PlayersInHand(o.r.mid)) >= 2
  /\ IsBettingRoundComplete(o.r.mid)

\* C29: when the river betting round completes while the board holds fewer
\* than five cards, no hand is evaluated and no pot is awarded, the call
\* reports a failure and the game state is as it was before the call
C29_IncompleteBoardShowdown ==
  \A o \in Outcomes :
    RiverRoundCompletesShort(o) =>
      /\ o.r.g.hand_history = hand_history
      /\ \A i \in Seats(state) : o.r.g.state.players[i].stack <= state.players[i].stack
      /\ Rejected(o)
      /\ Unchanged(o)

\* C30 as stated: after an accepted RAISE of amount a by a player whose round
\* bet before the action was b, the table current_bet is b + a
C30_RaiseTargetOverOwnBet ==
  \A o \in Outcomes :
    RaiseCall(o) =>
      o.r.mid.current_bet = state.players[Seat(o)].current_bet + o.a.amount

\* C30: after an accepted RAISE of amount a, made at table current_bet c by a
\* player with round bet b and stack s, the table current_bet is the player's
\* round bet after the action, b + min(c + a - b, s), which is c + a whenever
\* the stack covers c + a - b
C30_RaiseTarget ==
  \A o \in Outcomes :
    RaiseCall(o) =>
      LET b == state.players[Seat(o)].current_bet
          s == state.players[Seat(o)].stack
          c == state.current_bet
      IN /\ o.r.mid.current_bet = o.r.mid.players[Seat(o)].current_bet
         /\ o.r.mid.current_bet = b + Min(c + o.a.amount - b, s)
         /\ s >= c + o.a.amount - b => o.r.mid.current_bet = c + o.a.amount

\* a player facing a bet raises with a stack that covers the raise
C30_Witness ==
  \E o \in Outcomes :
    /\ RaiseCall(o)
    /\ state.players[Seat(o)].current_bet < state.current_bet
    /\ state.players[Seat(o)].stack
         >= state.current_bet + o.a.amount - state.players[Seat(o)].current_bet
    /\ o.r.mid.current_bet = state.current_bet + o.a.amount
    /\ o.r.mid.current_bet # state.players[Seat(o)].current_bet + o.a.amount

(***************************************************************************)
(* Properties of the ALL_IN clause and of the operations outside           *)
(* process_action.                                                         *)
(***************************************************************************)
\* an accepted ALL_IN in a betting round
AllInCall(o) ==
  /\ Accepted(o)
  /\ o.a.action = "all_in"
  /\ state.phase \in BettingPhases

\* the ALL_IN commits the whole stack
CommitsStack(o) ==
  LET before == state.players[Seat(o)]
      after == o.r.mid.players[Seat(o)]
  IN /\ after.stack = 0
     /\ after.current_bet = before.current_bet + before.stack
     /\ after.total_bet_this_hand = before.total_bet_this_hand + before.stack

\* by how much the ALL_IN lifts the table current_bet
AllInRaise(o) == o.r.mid.current_bet - state.current_bet

\* C31: an accepted ALL_IN commits the player's whole stack, makes the table
\* current_bet the maximum of its previous value and the player's new round
\* bet, and changes min_raise only when it lifts the table bet by more than
\* min_raise, setting it to that raise
C31_AllInEffects ==
  \A o \in Outcomes :
    AllInCall(o) =>
      /\ CommitsStack(o)
      /\ o.r.mid.current_bet = Max(state.current_bet, o.r.mid.players[Seat(o)].current_bet)
      /\ o.r.mid.min_raise = IF AllInRaise(o) > state.min_raise THEN AllInRaise(o)
                             ELSE state.min_raise

\* a step of start_new_hand, deal_next_phase_cards or advance_all_in_phase:
\* process_action has accepted nothing in it
OutsideProcessAction == state_version' = state_version

\* C32: start_new_hand, deal_next_phase_cards and advance_all_in_phase, in any
\* reachable state, preserve the total of the stacks plus the players'
\* total_bet_this_hand
C32_ConservationOutside ==
  [][OutsideProcessAction => ChipTotal(state') = ChipTotal(state)]_vars

(***************************************************************************)
(* Properties of the showdown under Spec.                                  *)
(***************************************************************************)
\* the players of pot's eligible set who have not folded, and those of them
\* whose hand is the best among them
Contenders(pot, s) == {i \in pot.eligible_players : ~s.players[i].has_folded}
BestHands(pot, s, strength) ==
  {i \in Contenders(pot, s) : \A j \in Contenders(pot, s) : strength[j] <= strength[i]}

\* what player i is due from pot: an equal share if he is among the best hands,
\* and the remainder too if he is the first of them
ShareOf(pot, s, strength, i) ==
  LET winners == BestHands(pot, s, strength)
  IN IF i \notin winners THEN 0
     ELSE (pot.amount \div Cardinality(winners))
          + (IF \A j \in winners : i <= j THEN pot.amount % Cardinality(winners) ELSE 0)

\* what player i received in the step that resolved the showdown: the change
\* of his stack, not counting the chips he bet in the same step
Received(i) ==
  state'.players[i].stack - state.players[i].stack
  + (LastRecord.total_bet[i] - state.players[i].total_bet_this_hand)

\* C33: at showdown every pot is divided among the non-folded players of its
\* eligible set whose hand is the best among them: each gets floor(amount /
\* winners), the first winner the remainder too, so that every pot is paid out
\* in full and no folded or ineligible player receives chips
C33_ShowdownAward ==
  [][ShowdownRecorded =>
       LET pots == LastRecord.pots
       IN /\ \E strength \in Strengths(state) :
               \A i \in Seats(state) :
                 Received(i) = SumOver([k \in 1..Len(pots) |->
                                          ShareOf(pots[k], state', strength, i)],
                                       1..Len(pots))
          /\ SumOver([i \in Seats(state) |-> Received(i)], Seats(state))
               = RecordedPotTotal(LastRecord)
          /\ \A i \in Seats(state) :
               Received(i) > 0 =>
                 /\ ~state'.players[i].has_folded
                 /\ \E k \in 1..Len(pots) : i \in pots[k].eligible_players]_vars

\* the per-hand state as start_new_hand leaves it when nothing of the previous
\* hand is left: no board, no pots, nothing folded or acted, only the blinds
\* bet, and the street-dealing flags cleared
FreshHand(s) ==
  /\ s.board_cards = 0
  /\ s.pots = <<>>
  /\ \A i \in Seats(s) :
       /\ ~s.players[i].has_folded
       /\ s.players[i].last_action = None
       /\ s.players[i].total_bet_this_hand = s.players[i].current_bet
       /\ s.players[i].current_bet <= s.big_blind
       /\ s.players[i].hole_cards \in {0, 2}
  /\ s.cards_dealt_for_phase = {}
  /\ ~s.awaiting_card_deal
  /\ ~s.all_players_all_in

\* C34: start_new_hand clears all per-hand state left by the previous hand:
\* the players' hole cards, bets, fold flags and last actions, the board, the
\* pots and the street-dealing flags cards_dealt_for_phase, awaiting_card_deal
\* and all_players_all_in
C34_PerHandReset == [][StartsHand => FreshHand(state')]_vars

(***************************************************************************)
(* Properties of the turn, the table bet and the board under Spec.         *)
(***************************************************************************)
\* nobody can act, or the hand has concluded by a fold-out or a showdown
BettingClosed(s) ==
  \/ s.action_on = -1
  \/ s.phase \in {"GAME_OVER", "SHOWDOWN"}

\* C35: while action_on is -1 or the hand has concluded, every process_action
\* call, from any player and with any action, is rejected and leaves the game
\* state unchanged
C35_BettingClosed ==
  \A o \in Outcomes : BettingClosed(state) => Rejected(o) /\ Unchanged(o)

\* an accepted action in a betting round
BettingCall(o) == Accepted(o) /\ state.phase \in BettingPhases

\* the table bet covers every player's round bet
CoversRoundBets(s) == \A i \in Seats(s) : s.players[i].current_bet <= s.current_bet

\* C36: within a betting round the table current_bet never decreases, an
\* accepted RAISE strictly increases it, after every accepted action it is at
\* least every player's round bet, and no accepted CALL, RAISE or ALL_IN moves
\* chips from a player's bets back to his stack
C36_TableBetMonotonic ==
  \A o \in Outcomes :
    BettingCall(o) =>
      /\ o.r.mid.current_bet >= state.current_bet
      /\ o.a.action = "raise" => o.r.mid.current_bet > state.current_bet
      /\ CoversRoundBets(o.r.mid)
      /\ o.a.action \in {"call", "raise", "all_in"} =>
           /\ o.r.mid.players[Seat(o)].stack <= state.players[Seat(o)].stack
           /\ o.r.mid.players[Seat(o)].current_bet >= state.players[Seat(o)].current_bet

(***************************************************************************)
(* The all-in run-out: deal_next_phase_cards and advance_all_in_phase      *)
(* called in any order once all the players left in the hand are all-in.   *)
(***************************************************************************)
\* all the players left in the hand are all-in and the hand is not at showdown
RunOutPending(s) ==
  /\ s.all_players_all_in
  /\ s.phase \in BettingPhases
  /\ ActivePlayers(s) = {}
  /\ Cardinality(PlayersInHand(s)) > 1

\* one of the two calls still changes the state: deal_next_phase_cards deals,
\* or advance_all_in_phase leaves another state than it found
RunOutCanProceed ==
  \/ DealRejectReason(state) = None
  \/ \E strength \in StrengthChoices(state) : AdvancePhase(Engine, strength).state # state

\* C37: once all the players left in the hand are all-in, the hand is never
\* unable to finish: as long as it has not reached its showdown, one of
\* deal_next_phase_cards and advance_all_in_phase takes it further, so
\* no order of the two calls leaves it in a betting phase for ever
C37_RunOutNotStuck == RunOutPending(state) => RunOutCanProceed

\* the board holds the cards of the street the phase names
StreetDealt(s) == s.board_cards = ExpectedCards(s.phase)

\* C38: whenever process_action accepts an action in a betting phase the board
\* holds 0, 3, 4 or 5 cards on PRE_FLOP, FLOP, TURN or RIVER, so no action is
\* accepted, and no betting round completes, on a street that is not dealt
C38_StreetDealtBeforeBetting ==
  \A o \in Outcomes : BettingCall(o) => StreetDealt(state)

\* the player who posted the small blind of the current hand
SmallBlindPoster ==
  LET posted == SelectSeq(chip_movements, InCurrentHand)
  IN IF Len(posted) >= 2 THEN posted[1].player_id ELSE -1

\* C39: while a hand is in a betting phase, the seats the CHECK rule and the
\* serialized state take for the small and the big blind are the seats that
\* posted the blinds of that hand
C39_BlindSeatsStable ==
  state.phase \in BettingPhases /\ BigBlindPoster # -1 =>
    /\ GetSmallBlindPosition(state) = SmallBlindPoster
    /\ GetBigBlindPosition(state) = BigBlindPoster
    /\ \A i \in Seats(state) :
         LET p == SerializeState(state).players[i]
         IN /\ p.is_small_blind <=> i = SmallBlindPoster
            /\ p.is_big_blind <=> i = BigBlindPoster

(***************************************************************************)
(* core/websocket_manager.py: one GameRoom.  connections holds the keys of *)
(* the dict in the order of its entries, a popped key leaving its slot     *)
(* behind; room_lock is the asyncio.Lock, its flag and its queue of        *)
(* waiters; tasks[t] is the stack of GameRoom coroutines task t is inside  *)
(* of, the innermost last.  A task runs without interruption from one      *)
(* await that suspends it to the next: waiting for the lock, closing a     *)
(* websocket, sending on one.                                              *)
(***************************************************************************)
RoomPlayers == {"hero", "spectator"}
\* the slot of a key that dict.pop removed
Popped == "<popped>"

Room == [connections |-> connections, room_lock |-> room_lock, tasks |-> tasks]
SetRoom(r) ==
  /\ connections' = r.connections
  /\ room_lock' = r.room_lock
  /\ tasks' = r.tasks

\* a call of a GameRoom coroutine: its arguments and its local variables
\* (broadcast: player_id is the loop variable, position and used are the dict
\* iterator, cleaned counts the disconnected clients already cleaned up)
Coroutine(fn, player_id, exclude) ==
  [fn |-> fn,
   pc |-> IF fn = "broadcast" THEN "iterate" ELSE "acquire",
   player_id |-> player_id,
   exclude |-> exclude,
   position |-> 0,
   used |-> 0,
   disconnected |-> <<>>,
   cleaned |-> 0]

Innermost(r, t) == r.tasks[t][Len(r.tasks[t])]
At(r, t, label) == [r EXCEPT !.tasks[t][Len(r.tasks[t])].pc = label]
\* "await self.<coroutine>(...)" and the return of the innermost coroutine to its caller
Await(r, t, coroutine) == [r EXCEPT !.tasks[t] = Append(@, coroutine)]
ReturnTo(r, t) == [r EXCEPT !.tasks[t] = SubSeq(@, 1, Len(@) - 1)]

\* the entries of the dict and its keys
Entries(conns) == {i \in 1..Len(conns) : conns[i] # Popped}
Keys(conns) == {conns[i] : i \in Entries(conns)}

\* asyncio.Lock.acquire, entered by "async with self._lock": the lock is taken
\* at once when it is free and nobody waits for it, else the task queues
LockAcquire(r, t) ==
  IF ~r.room_lock.locked /\ r.room_lock.waiters = <<>>
  THEN At([r EXCEPT !.room_lock.locked = TRUE], t, "locked")
  ELSE At([r EXCEPT !.room_lock.waiters = Append(@, t)], t, "wait_lock")

\* an exception nothing in GameRoom catches: every coroutine of the task is
\* left, an "async with self._lock" block on the way releasing the lock
Raise(r, t) ==
  LET holds_lock == \E k \in 1..Len(r.tasks[t]) :
                      /\ r.tasks[t][k].fn # "broadcast"
                      /\ r.tasks[t][k].pc \in {"locked", "close", "insert", "release"}
  IN [r EXCEPT !.room_lock.locked = IF holds_lock THEN FALSE ELSE @,
               !.tasks[t] = <<>>]

\* GameRoom.add_connection, from one await to the next; leaving the
\* "async with" block releases the lock
AddConnectionStep(r, t) ==
  LET f == Innermost(r, t)
  IN CASE f.pc = "acquire" -> LockAcquire(r, t)
       [] f.pc = "locked" ->
            IF f.player_id \in Keys(r.connections) THEN At(r, t, "close")
            ELSE At(r, t, "insert")
       [] f.pc = "insert" ->
            Await(At([r EXCEPT !.connections =
                        IF f.player_id \in Keys(@) THEN @ ELSE Append(@, f.player_id)],
                     t, "release"),
                  t, Coroutine("broadcast", None, {f.player_id}))
       [] f.pc = "release" -> ReturnTo([r EXCEPT !.room_lock.locked = FALSE], t)

\* GameRoom.remove_connection
RemoveConnectionStep(r, t) ==
  LET f == Innermost(r, t)
  IN CASE f.pc = "acquire" -> LockAcquire(r, t)
       [] f.pc = "locked" ->
            IF f.player_id \in Keys(r.connections)
            THEN Await(At([r EXCEPT !.connections =
                             [i \in DOMAIN @ |-> IF @[i] = f.player_id THEN Popped ELSE @[i]]],
                          t, "release"),
                       t, Coroutine("broadcast", None, {}))
            ELSE At(r, t, "release")
       [] f.pc = "release" -> ReturnTo([r EXCEPT !.room_lock.locked = FALSE], t)

\* GameRoom.broadcast: the loop over self.connections.items(), which raises
\* RuntimeError when the dict has changed size since the loop began, and the
\* loop over the disconnected clients
BroadcastStep(r, t) ==
  LET f == Innermost(r, t)
      d == Len(r.tasks[t])
      later == {i \in Entries(r.connections) : i > f.position}
  IN CASE f.pc = "iterate" ->
            [r EXCEPT !.tasks[t][d].used = Cardinality(Entries(r.connections)),
                      !.tasks[t][d].pc = "next"]
       [] f.pc = "next" ->
            IF Cardinality(Entries(r.connections)) # f.used THEN Raise(r, t)
            ELSE IF later = {} THEN At(r, t, "cleanup")
            ELSE LET i == CHOOSE i \in later : \A j \in later : i <= j
                 IN [r EXCEPT !.tasks[t][d].position = i,
                              !.tasks[t][d].player_id = r.connections[i],
                              !.tasks[t][d].pc = IF r.connections[i] \in f.exclude
                                                 THEN "next" ELSE "send"]
       [] f.pc = "cleanup" ->
            IF f.cleaned = Len(f.disconnected) THEN ReturnTo(r, t)
            ELSE Await([r EXCEPT !.tasks[t][d].cleaned = @ + 1],
                       t, Coroutine("remove_connection", f.disconnected[f.cleaned + 1], {}))

\* the event loop runs the task until it has returned or an await suspends
\* it: waiting for the lock, closing a websocket, sending on one
RECURSIVE RunToAwait(_, _)
RunToAwait(r, t) ==
  IF r.tasks[t] = <<>> THEN r
  ELSE IF Innermost(r, t).pc \in {"wait_lock", "close", "send"} THEN r
  ELSE CHOOSE left \in
         {RunToAwait(next, t) :
            next \in {CASE Innermost(r, t).fn = "add_connection" -> AddConnectionStep(r, t)
                        [] Innermost(r, t).fn = "remove_connection" -> RemoveConnectionStep(r, t)
                        [] Innermost(r, t).fn = "broadcast" -> BroadcastStep(r, t)}} : TRUE

\* a task calls GameRoom.add_connection (WebSocketManager.connect); the room
\* is followed as long as its dict takes a new key without being rebuilt,
\* counting the tasks that have not stored their connection yet
AddConnection(t) ==
  /\ tasks[t] = <<>>
  /\ Len(connections)
       + Cardinality({u \in 1..NumTasks : tasks[u] # <<>> /\ tasks[u][1].fn = "add_connection"
                                         /\ tasks[u][1].pc \in {"wait_lock", "close"}})
       < MaxEntries
  /\ \E p \in RoomPlayers :
       SetRoom(RunToAwait(Await(Room, t, Coroutine("add_connection", p, {})), t))
  /\ UNCHANGED <<config, evalVars, engineVars, shellVars, callerVars, now>>

\* a task calls GameRoom.remove_connection (WebSocketManager.disconnect)
RemoveConnection(t) ==
  /\ tasks[t] = <<>>
  /\ \E p \in RoomPlayers :
       SetRoom(RunToAwait(Await(Room, t, Coroutine("remove_connection", p, {})), t))
  /\ UNCHANGED <<config, evalVars, engineVars, shellVars, callerVars, now>>

\* a task calls GameRoom.broadcast (WebSocketManager.broadcast_to_game)
Broadcast(t) ==
  /\ tasks[t] = <<>>
  /\ SetRoom(RunToAwait(Await(Room, t, Coroutine("broadcast", None, {})), t))
  /\ UNCHANGED <<config, evalVars, engineVars, shellVars, callerVars, now>>

\* asyncio.Lock: the first waiter is woken once the lock is released
LockGranted(t) ==
  /\ tasks[t] # <<>>
  /\ Innermost(Room, t).pc = "wait_lock"
  /\ ~room_lock.locked
  /\ Head(room_lock.waiters) = t
  /\ SetRoom(RunToAwait(At([Room EXCEPT !.room_lock = [locked |-> TRUE,
                                                       waiters |-> Tail(@.waiters)]],
                           t, "locked"), t))
  /\ UNCHANGED <<config, evalVars, engineVars, shellVars, callerVars, now>>

\* "await old_conn.websocket.close()" returns or raises; both are swallowed
WebsocketClosed(t) ==
  /\ tasks[t] # <<>>
  /\ Innermost(Room, t).pc = "close"
  /\ SetRoom(RunToAwait(At(Room, t, "insert"), t))
  /\ UNCHANGED <<config, evalVars, engineVars, shellVars, callerVars, now>>

\* PlayerConnection.send_json returns: True, or False when the send raised
SendReturned(t) ==
  /\ tasks[t] # <<>>
  /\ Innermost(Room, t).pc = "send"
  /\ \E success \in BOOLEAN :
       LET f == Innermost(Room, t)
           r == [Room EXCEPT !.tasks[t][Len(tasks[t])].disconnected =
                               IF success THEN @ ELSE Append(@, f.player_id)]
       IN SetRoom(RunToAwait(At(r, t, "next"), t))
  /\ UNCHANGED <<config, evalVars, engineVars, shellVars, callerVars, now>>

RoomNext ==
  \E t \in 1..NumTasks :
    \/ AddConnection(t)
    \/ RemoveConnection(t)
    \/ Broadcast(t)
    \/ LockGranted(t)
    \/ WebsocketClosed(t)
    \/ SendReturned(t)

\* the room of a game; the event loop resumes a task whose await is over, and
\* every close and every send on a websocket returns or raises
RoomFairSpec ==
  /\ ShellInit
  /\ [][RoomNext]_vars
  /\ \A t \in 1..NumTasks :
       /\ WF_vars(LockGranted(t))
       /\ WF_vars(WebsocketClosed(t))
       /\ WF_vars(SendReturned(t))

\* C40: GameRoom.add_connection and GameRoom.remove_connection complete and
\* release the room lock, also when a send of the broadcast they make inside
\* the lock fails: the room lock, once taken, is released again
C40_RoomLockReleased == room_lock.locked ~> ~room_lock.locked

====
